---- MODULE Spec2Model ----
(***************************************************************************)
(* The master-aware connection orchestrator of pyrakoon's compat client    *)
(* (pyrakoon/compat/client/socket.py, functional.py) as a state machine.   *)
(* Every thread that uses one ArakoonClient is a process with a program    *)
(* counter; the cluster and the transport are the environment.             *)
(* Time is counted in ticks of 0.2 s, the backoffPeriod of _process.       *)
(***************************************************************************)
EXTENDS Integers, Sequences, FiniteSets, TLC

\* ------------------------------------------------------------------------
\* Bounds of the model
\* ------------------------------------------------------------------------
MaxCalls == 2
MaxNow == 2
MaxBudget == 1
MaxK == 4
MaxElect == 1
MaxLen == 2
MaxTry == 2

\* ------------------------------------------------------------------------
\* Program constants
\* ------------------------------------------------------------------------
\* ARA_CFG_TRY_CNT
TryCount == 1
\* ARA_CFG_NO_MASTER_RETRY: 60 s, in ticks of 0.2 s
NoMasterRetryTicks == 300
\* backoffPeriod = 0.2 s, in ticks
BackoffTicks == 1

None == "None"
\* No value in the codec
NoJob == [pc |-> "none"]
AllNodes == {"n1", "n2", "n3"}
AllThreads == {"t1", "t2"}

VARIABLES
    master_id,    \* ArakoonSocketClient.master_id: a node id or None
    lock,         \* owner of ArakoonSocketClient._lock (an RLock), or None
    connections,  \* ArakoonSocketClient._connections: node id -> connection object
    th,           \* per thread: the call it is in, its position and its locals
    waitq,        \* the threads blocked in _lock.acquire(), in order of arrival
    cfg,          \* the client's configuration: node ids, _master_timeout
    env,          \* the cluster and the transport
    codec         \* a value, message or reply frame passing through the wire codec

vars == <<master_id, lock, connections, th, waitq, cfg, env, codec>>

\* ------------------------------------------------------------------------
\* Errors
\* ------------------------------------------------------------------------
\* Error replies of the server (pyrakoon.errors, subclasses of ArakoonError)
ServerErrors == {"NotMaster", "NoLongerMaster", "WrongCluster", "NotFound"}

\* Read failures of ArakoonSocketClientConnection.read
ReadFaults == {"SockReadNoBytes", "SockRecvError", "SockNotReadable"}

\* Errors of the compat layer (subclasses of compat ArakoonException)
CompatErrors == ReadFaults \cup {"SockRecvClosed", "SockSendError", "NotConnected", "NoMaster"}

\* The except clause of the outer loop of _process
RetryableNoZeroByte == {"NotMaster", "NoMaster", "NotConnected"}
RetryableWithTimeout == {"NotMaster", "NoMaster", "NotConnected", "SockReadNoBytes",
                         "SockNotReadable"}
RetryableWithWrongCluster == {"NotMaster", "NoMaster", "NotConnected", "SockReadNoBytes",
                              "WrongCluster"}
Retryable == {"NotMaster", "NoMaster", "NotConnected", "SockReadNoBytes"}

\* _convert_exception: the first isinstance branch that matches decides.
\* WrongCluster derives from ValueError, which is tested before ArakoonError;
\* NoLongerMaster is tested after ArakoonError, its base class.
\* ArakoonError and its subclasses (pyrakoon/errors); of these WrongCluster
\* and OutsideInterval derive from ValueError too, and ArakoonInvalidArguments
\* of the compat layer derives from TypeError.
ArakoonErrors ==
    {"ArakoonError", "UnknownFailure", "NoHello", "NotMaster", "WrongCluster", "GoingDown",
     "NoLongerMaster", "MaxConnections", "TooManyDeadNodes", "NoMagic", "NotFound",
     "AssertionFailed", "ReadOnly", "OutsideInterval", "NotSupported", "BadInput",
     "InconsistentRead"}
ConvertException(e) ==
    CASE e = "NotFound" -> "ArakoonNotFound"
      [] e = "NotMaster" -> "ArakoonNodeNotMaster"
      [] e \in {"WrongCluster", "OutsideInterval", "TypeError", "ValueError",
                "ArakoonInvalidArguments"} -> "ArakoonInvalidArguments"
      [] e = "AssertionFailed" -> "ArakoonAssertionFailed"
      [] e = "BadInput" -> "ArakoonBadInput"
      [] e \in ArakoonErrors -> "ArakoonException"
      [] OTHER -> e

\* The try/except of expectProgressPossible inside its convert_exceptions
\* decorator: compat errors become False, anything else is converted and raised.
EppOutcome(exc) ==
    IF exc = "none" THEN "ok"
    ELSE IF exc \in CompatErrors THEN "False"
    ELSE ConvertException(exc)

\* ------------------------------------------------------------------------
\* Messages
\* ------------------------------------------------------------------------
\* RETURN_TYPE is UNIT for Set: a successful reply has no payload after its code
HasPayload(kind, code) == code # "ok" \/ kind # "Set"

NoReply == [code |-> "none", val |-> None]

\* ------------------------------------------------------------------------
\* Connection objects
\* ------------------------------------------------------------------------
\* ArakoonSocketClientConnection.__init__
NewConn == [present |-> TRUE, connected |-> FALSE, socket |-> "none",
            prologue |-> 0, inflight |-> <<>>, reused |-> FALSE]

\* No key for the node in _connections
NoConn == [present |-> FALSE, connected |-> FALSE, socket |-> "none",
           prologue |-> 0, inflight |-> <<>>, reused |-> FALSE]

\* ArakoonSocketClientConnection.connect, o the outcome of the transport:
\* "ok", "refused" (create_connection raises), "prologue_fail" (sendall raises).
\* The socket the object held is closed first and a new one is created: the
\* prologue field counts the prologues written on the socket the object holds,
\* reused tells that connect has run on an object that had been ready before
\* (recorded for the clients whose sockets are watched, env.watch).
WasReady(c) == c.reused \/ c.socket = "closed" \/ c.prologue = 1
ConnectNoPrologue(c, o) ==
    CASE o = "ok" -> [c EXCEPT !.connected = TRUE, !.socket = "open",
                               !.prologue = 0, !.inflight = <<>>,
                               !.reused = (env.watch /\ WasReady(c))]
      [] o = "refused" -> [c EXCEPT !.socket = "none", !.prologue = 0,
                                    !.inflight = <<>>, !.reused = (env.watch /\ WasReady(c))]
      [] OTHER -> [c EXCEPT !.socket = "open", !.prologue = 0, !.inflight = <<>>,
                            !.reused = (env.watch /\ WasReady(c))]
ConnectSameSocket(c, o) ==
    IF o = "ok" /\ c.socket # "none"
    THEN [c EXCEPT !.connected = TRUE, !.socket = "open"]
    ELSE ConnectNoPrologue(c, o)
Connect(c, o) ==
    CASE o = "ok" -> [c EXCEPT !.connected = TRUE, !.socket = "open",
                               !.prologue = 1, !.inflight = <<>>,
                               !.reused = (env.watch /\ WasReady(c))]
      [] o = "refused" -> [c EXCEPT !.socket = "none", !.prologue = 0,
                                    !.inflight = <<>>, !.reused = (env.watch /\ WasReady(c))]
      [] OTHER -> [c EXCEPT !.socket = "open", !.prologue = 0, !.inflight = <<>>,
                            !.reused = (env.watch /\ WasReady(c))]

\* ArakoonSocketClientConnection.close
Close(c) ==
    IF c.connected /\ c.socket # "none"
    THEN [c EXCEPT !.connected = FALSE, !.socket = "closed"]
    ELSE c

\* ArakoonClientConfig.getConnectionTimeout(), 60 s, in ticks of 0.2 s
ConnectionTimeoutTicks == 300

\* ArakoonSocketClientConnection.__init__: the timeout of the connects and of
\* the select of every read of the object, None (written -1) for no timeout
ConnTimeoutInit(timeout) ==
    IF timeout = -1 \/ timeout > 0 THEN timeout ELSE ConnectionTimeoutTicks

\* A connection object that is popped from the pool is closed by close(), which
\* leaves the socket of an object that is not connected alone: the socket stays
\* open until the runtime collects the object, at once or never. The sockets
\* that may be left open when the objects of the nodes ns are popped (recorded
\* in env.orphans for the clients whose sockets are watched).
Unclosed(c) == c.present /\ ~c.connected /\ c.socket = "open"
LeftOpen(ns) == SUBSET {n \in ns : env.watch /\ Unclosed(connections[n])}

\* ArakoonSocketClient.drop_connections: every connection is popped and closed
EmptyPool == [n \in AllNodes |-> NoConn]

\* A popped connection object is closed or was never connected. A thread that
\* still holds a reference to it (a reader outside the lock) holds an object
\* that is not connected: its reference is written "dropped".
DropRefs(t, ns) ==
    [u \in AllThreads |-> IF u # t /\ th[u].cref \in ns
                          THEN [th[u] EXCEPT !.cref = "dropped"] ELSE th[u]]
Pooled == {n \in AllNodes : connections[n].present}

\* ArakoonSocketClient.__init__: the no-master budget, in ticks
\* (a timeout of None is written -1)
MasterTimeoutInit(timeout, noMasterTimeout) ==
    IF timeout = -1 \/ timeout > 0 THEN noMasterTimeout ELSE NoMasterRetryTicks

\* ------------------------------------------------------------------------
\* Threads
\* ------------------------------------------------------------------------
IdleTh(calls, op, result) ==
    [pc |-> "idle", op |-> op, kind |-> "none", node_id |-> None, retry |-> FALSE,
     tryCount |-> 0, elapsed |-> 0, node_ids |-> {}, node |-> None,
     purpose |-> "none", target |-> None, i |-> 0, cref |-> None, reply |-> NoReply,
     exc |-> "none", ahead |-> {}, attempts |-> 0, told |-> {}, named |-> {},
     calls |-> calls, result |-> result]

\* threading.RLock: free, or re-entered by its owner
LockFreeFor(t) == lock \in {None, t}
Waiting == {t \in env.threads : th[t].pc = "acquire"}

\* The calls a thread may make: [op, kind, node_id, retry]
ProcessCall(k, n, r) == [op |-> "process", kind |-> k, node_id |-> n, retry |-> r]
EppCall == [op |-> "epp", kind |-> "EPP", node_id |-> None, retry |-> FALSE]
WhoMasterCall == [op |-> "whoMaster", kind |-> "none", node_id |-> None, retry |-> FALSE]
DropCall == [op |-> "drop", kind |-> "none", node_id |-> None, retry |-> FALSE]

\* ------------------------------------------------------------------------
\* The environment: what the cluster answers and what the transport does
\* ------------------------------------------------------------------------
ConnOutcomes == {"ok"} \cup (env.faults \cap {"refused", "prologue_fail"})
SendOutcomes == {"ok"} \cup (env.faults \cap {"SockSendError"})

\* The reply of node n to a request of the given kind
Replies(n, kind) ==
    IF kind = "WhoMaster" THEN {[code |-> "ok", val |-> env.who[n]]}
    ELSE IF env.nm > 0 THEN {[code |-> "NotMaster", val |-> None]}
    ELSE {[code |-> IF kind = "Version" \/ env.who[n] = n THEN "ok" ELSE "NotMaster",
           val |-> None]}
         \cup {[code |-> e, val |-> None] : e \in env.faults \cap ServerErrors}

\* The first request written on a connection whose reply nobody has begun to read
Unread(c) == {j \in 1..Len(c.inflight) : c.inflight[j].rd = None}
FirstUnread(c) == CHOOSE j \in Unread(c) : \A k \in Unread(c) : j <= k
Without(s, j) == [k \in 1..(Len(s) - 1) |-> IF k < j THEN s[k] ELSE s[k + 1]]
ReadBy(c, t) == {j \in 1..Len(c.inflight) : c.inflight[j].rd = t}

\* select.select and socket.recv in ArakoonSocketClientConnection.read
ReadOutcomes(hasData) ==
    (IF hasData THEN {"ok"} ELSE {"SockNotReadable"}) \cup (env.faults \cap ReadFaults)

\* The connection after a failed read
AfterReadFaultPopped(c, o) == NoConn
AfterReadFault(c, o) ==
    IF o = "SockRecvError" THEN [c EXCEPT !.connected = FALSE] ELSE Close(c)

\* ------------------------------------------------------------------------
\* Raising and returning
\* ------------------------------------------------------------------------
\* Where an exception e raised while sending or reading lands: in the handlers
\* of determine_master, or in the except clause of _process
Raise(r, e) ==
    CASE r.purpose \in {"query", "validate"} ->
           [r EXCEPT !.pc = "dm_loop", !.cref = None, !.reply = NoReply]
      [] OTHER ->
           [r EXCEPT !.pc = IF e \in Retryable THEN "except" ELSE "release",
                     !.exc = e, !.reply = NoReply]

\* master_id after the handler of determine_master that catches an exception
\* raised by _validate_master_id
MasterAfterRaiseKept(r, m) == m
MasterAfterRaise(r, m) == IF r.purpose = "validate" THEN None ELSE m

\* A complete reply rep has been parsed by Message.receive
Complete(r, rep) ==
    IF rep.code # "ok" THEN Raise(r, rep.code)
    ELSE CASE r.purpose = "query" ->
                [r EXCEPT !.pc = "dm_check", !.cref = None, !.reply = NoReply,
                          !.named = IF rep.val = r.node THEN @ \cup {rep.val} ELSE @,
                          !.told = IF rep.val \notin {r.node, None} THEN @ \cup {rep.val} ELSE @]
           [] r.purpose = "validate" ->
                [r EXCEPT !.pc = "dm_loop", !.cref = None, !.reply = NoReply,
                          !.named = IF rep.val = r.target THEN @ \cup {rep.val} ELSE @]
           [] OTHER -> [r EXCEPT !.pc = "release", !.exc = "none", !.reply = NoReply]

MasterAfterNoCheck(r, rep, m) ==
    IF rep.code # "ok" THEN MasterAfterRaise(r, m)
    ELSE CASE r.purpose = "query" -> rep.val
           [] OTHER -> m
MasterAfterAdopt(r, rep, m) ==
    IF rep.code = "ok" /\ r.purpose = "request" THEN r.cref ELSE MasterAfterNoCheck(r, rep, m)
MasterAfter(r, rep, m) ==
    IF rep.code # "ok" THEN MasterAfterRaise(r, m)
    ELSE CASE r.purpose = "query" -> rep.val
           [] r.purpose = "validate" -> IF rep.val = r.target THEN m ELSE None
           [] OTHER -> m

\* ------------------------------------------------------------------------
\* Actions
\* ------------------------------------------------------------------------
\* threading.RLock.acquire by a thread that does not own the lock
LockAvailableAlways == TRUE
LockAvailable == lock = None

\* A thread calls an operation of the client. A call of _process arrives at
\* self._lock.acquire(): it takes the lock when it is free (start, tryCount and
\* deadline follow; the model keeps elapsed = time.time() - start in place of
\* start and deadline = start + _master_timeout) and blocks otherwise.
Call(t) ==
    /\ t \in env.threads
    /\ th[t].pc = "idle"
    /\ th[t].calls < MaxCalls
    /\ \E c \in env.calls :
         LET r == [IdleTh(th[t].calls + 1, c.op, "none") EXCEPT
                     !.kind = c.kind, !.node_id = c.node_id, !.retry = c.retry]
             locked == c.op \in {"process", "epp"}
         IN /\ th' = [th EXCEPT ![t] =
                        [r EXCEPT !.pc = IF ~locked
                                         THEN (IF c.op = "whoMaster" THEN "dm" ELSE "drop")
                                         ELSE IF LockAvailable THEN "attempt" ELSE "acquire",
                                  !.ahead = IF locked /\ LockAvailable
                                            THEN {waitq[j] : j \in 1..Len(waitq)} ELSE {}]]
            /\ lock' = IF locked /\ LockAvailable THEN t ELSE lock
            /\ waitq' = IF locked /\ ~LockAvailable THEN Append(waitq, t) ELSE waitq
    /\ UNCHANGED <<master_id, connections, cfg, codec, env>>

\* _process: a blocked self._lock.acquire() returns. Which of the blocked
\* threads gets a released lock, and whether a new caller gets it before them,
\* is up to the scheduler: threading.RLock keeps no queue.
Position(t) == CHOOSE j \in 1..Len(waitq) : waitq[j] = t
Acquire(t) ==
    /\ th[t].pc = "acquire"
    /\ LockAvailable
    /\ lock' = t
    /\ th' = [th EXCEPT ![t].pc = "attempt", ![t].tryCount = 0,
                        ![t].elapsed = 0,
                        ![t].ahead = {waitq[j] : j \in 1..(Position(t) - 1)}]
    /\ waitq' = Without(waitq, Position(t))
    /\ UNCHANGED <<master_id, connections, cfg, codec, env>>

\* _process: the top of the while loop
Attempt(t) ==
    /\ th[t].pc = "attempt"
    /\ th' = [th EXCEPT ![t].pc = IF th[t].node_id = None THEN "dm" ELSE "sm",
                        ![t].purpose = "request", ![t].i = 0,
                        ![t].exc = "none", ![t].cref = None,
                        ![t].attempts = th[t].attempts + 1]
    /\ UNCHANGED <<master_id, lock, connections, waitq, cfg, codec, env>>

\* determine_master: entry
DetermineMaster(t) ==
    /\ th[t].pc = "dm"
    /\ th' = [th EXCEPT ![t].pc = IF master_id = None THEN "dm_loop" ELSE "dm_end",
                        ![t].node_ids = IF master_id = None THEN cfg.nodes ELSE {},
                        ![t].told = {}, ![t].named = {}, ![t].purpose = "none"]
    /\ UNCHANGED <<master_id, lock, connections, waitq, cfg, codec, env>>

\* determine_master: the while test and node_ids.pop() of the shuffled list
DMLoop(t) ==
    /\ th[t].pc = "dm_loop"
    /\ IF master_id = None /\ th[t].node_ids # {}
       THEN \E n \in th[t].node_ids :
              th' = [th EXCEPT ![t].pc = "sm", ![t].node = n, ![t].target = n,
                               ![t].purpose = "query", ![t].i = 0,
                               ![t].node_ids = th[t].node_ids \ {n}]
       ELSE th' = [th EXCEPT ![t].pc = "dm_end", ![t].node_ids = {},
                             ![t].node = None, ![t].target = None]
    /\ UNCHANGED <<master_id, lock, connections, waitq, cfg, codec, env>>

\* determine_master: after master_id has been assigned the reply of node
DMCheck(t) ==
    /\ th[t].pc = "dm_check"
    /\ IF master_id # None /\ master_id # th[t].node
       THEN th' = [th EXCEPT ![t].pc = "sm", ![t].purpose = "validate",
                             ![t].target = master_id, ![t].i = 0]
       ELSE th' = [th EXCEPT ![t].pc = "dm_loop"]
    /\ UNCHANGED <<master_id, lock, connections, waitq, cfg, codec, env>>

\* determine_master: the final test; whoMaster returns here, _send_to_master goes on
DMEnd(t) ==
    /\ th[t].pc = "dm_end"
    /\ IF th[t].op = "whoMaster"
       THEN th' = [th EXCEPT ![t] = IdleTh(th[t].calls, "whoMaster",
                                           IF master_id = None THEN "NoMaster" ELSE master_id)]
       ELSE IF master_id = None
       THEN th' = [th EXCEPT ![t].pc = "except", ![t].exc = "NoMaster",
                             ![t].told = {}, ![t].named = {}]
       ELSE th' = [th EXCEPT ![t].pc = "sm", ![t].purpose = "request", ![t].i = 0,
                             ![t].told = {}, ![t].named = {}]
    /\ UNCHANGED <<master_id, lock, connections, waitq, cfg, codec, env>>

\* _send_message: one turn of its loop, under the lock: _get_connection,
\* connection.send, and on failure the pop and close of the node's connection.
\* The node id is an argument of _send_message: it is read when the call is
\* made (attempt 0) and is the same in the later attempts of that call.
\* o1 is the outcome of the connect of a new connection object, o2 that of the
\* reconnect tried by send when the object is not connected, o3 that of sendall.
SendTargetMaster(t) ==
    IF th[t].purpose = "request" THEN master_id ELSE th[t].target
SendTargetDirty(t) ==
    IF th[t].purpose = "request" /\ th[t].i = 0
    THEN (IF th[t].node_id # None THEN th[t].node_id
          ELSE IF th[t].kind = "Get" /\ codec.pc = "called"
                  /\ codec.msg.attrs["consistency"].k # "CONSISTENT"
               THEN CHOOSE n \in cfg.nodes : connections[n].connected
               ELSE master_id)
    ELSE th[t].target
SendTarget(t) ==
    IF th[t].purpose = "request" /\ th[t].i = 0
    THEN (IF th[t].node_id = None THEN master_id ELSE th[t].node_id)
    ELSE th[t].target

SendMessage(t) ==
    /\ th[t].pc = "sm"
    /\ LockFreeFor(t)
    /\ LET tgt == SendTarget(t) IN
       IF tgt \notin cfg.nodes
       THEN \* getNodeLocation raises KeyError, and so does the pop in the handler
            /\ master_id' = None
            /\ th' = [th EXCEPT ![t] = Raise(th[t], "KeyError")]
            /\ UNCHANGED <<connections, env>>
       ELSE \E o1 \in ConnOutcomes, o2 \in ConnOutcomes, o3 \in SendOutcomes :
            LET obj0 == IF connections[tgt].present THEN connections[tgt]
                        ELSE Connect(NewConn, o1)
                obj1 == IF obj0.connected THEN obj0 ELSE Connect(obj0, o2)
                e == IF ~obj1.connected THEN "NotConnected"
                     ELSE IF o3 = "ok" THEN "none" ELSE "SockSendError"
            IN IF e = "none"
               THEN /\ connections' =
                         [connections EXCEPT ![tgt] =
                            [obj1 EXCEPT !.inflight =
                               Append(@, [t |-> t, rd |-> None,
                                          kind |-> IF th[t].purpose = "request"
                                                   THEN th[t].kind ELSE "WhoMaster"])]]
                    /\ th' = [th EXCEPT ![t].pc = "read", ![t].cref = tgt]
                    /\ UNCHANGED <<master_id, env>>
               ELSE /\ connections' = [connections EXCEPT ![tgt] = NoConn]
                    /\ \E left \in SUBSET (IF env.watch /\ Unclosed(obj1) THEN {tgt} ELSE {}) :
                         env' = [env EXCEPT !.orphans = @ \cup left]
                    /\ master_id' = None
                    /\ th' = [DropRefs(t, {tgt}) EXCEPT ![t] =
                                IF th[t].i + 1 < cfg.try_count
                                THEN [th[t] EXCEPT !.i = th[t].i + 1, !.target = tgt]
                                ELSE Raise(th[t], e)]
    /\ UNCHANGED <<lock, waitq, cfg, codec>>

\* read_blocking: the first connection.read of a reply, the 4 bytes of its code
Read(t) ==
    /\ th[t].pc = "read"
    /\ LET id == th[t].cref
           c == IF id = "dropped" THEN NoConn ELSE connections[id]
       IN IF ~c.connected
          THEN /\ th' = [th EXCEPT ![t] = Raise(th[t], "SockRecvClosed")]
               /\ master_id' = MasterAfterRaise(th[t], master_id)
               /\ UNCHANGED <<connections, env>>
          ELSE \E o \in ReadOutcomes(Unread(c) # {}) :
                 IF o # "ok"
                 THEN /\ connections' = [connections EXCEPT ![id] = AfterReadFault(c, o)]
                      /\ th' = [th EXCEPT ![t] = Raise(th[t], o)]
                      /\ master_id' = MasterAfterRaise(th[t], master_id)
                      /\ UNCHANGED env
                 ELSE LET j == FirstUnread(c) IN
                      \E rep \in Replies(id, c.inflight[j].kind) :
                        /\ env' = IF c.inflight[j].kind # "WhoMaster" /\ env.nm > 0
                                  THEN [env EXCEPT !.nm = env.nm - 1] ELSE env
                        /\ IF HasPayload(IF th[t].purpose = "request" THEN th[t].kind
                                         ELSE "WhoMaster", rep.code)
                           THEN /\ connections' = [connections EXCEPT ![id].inflight[j].rd = t]
                                /\ th' = [th EXCEPT ![t].pc = "read2", ![t].reply = rep]
                                /\ UNCHANGED master_id
                           ELSE /\ connections' = [connections EXCEPT ![id].inflight = Without(@, j)]
                                /\ th' = [th EXCEPT ![t] = Complete(th[t], rep)]
                                /\ master_id' = MasterAfter(th[t], rep, master_id)
    /\ UNCHANGED <<lock, waitq, cfg, codec>>

\* The nodes that have named themselves master in a WhoMaster reply to this
\* client (recorded for the clients whose replies are watched, env.hear)
Heard(r, n, rep) ==
    IF env.hear /\ r.purpose \in {"query", "validate"} /\ rep.code = "ok" /\ rep.val = n
    THEN [env EXCEPT !.heard = @ \cup {n}] ELSE env

\* read_blocking: the remaining connection.read calls of a reply, its payload
ReadRest(t) ==
    /\ th[t].pc = "read2"
    /\ LET id == th[t].cref
           c == IF id = "dropped" THEN NoConn ELSE connections[id]
       IN IF ~c.connected
          THEN /\ th' = [th EXCEPT ![t] = Raise(th[t], "SockRecvClosed")]
               /\ master_id' = MasterAfterRaise(th[t], master_id)
               /\ UNCHANGED <<connections, env>>
          ELSE \E o \in ReadOutcomes(ReadBy(c, t) # {}) :
                 IF o # "ok"
                 THEN /\ connections' = [connections EXCEPT ![id] = AfterReadFault(c, o)]
                      /\ th' = [th EXCEPT ![t] = Raise(th[t], o)]
                      /\ master_id' = MasterAfterRaise(th[t], master_id)
                      /\ UNCHANGED env
                 ELSE /\ connections' = [connections EXCEPT ![id].inflight =
                                           Without(@, CHOOSE j \in ReadBy(c, t) : TRUE)]
                      /\ th' = [th EXCEPT ![t] = Complete(th[t], th[t].reply)]
                      /\ master_id' = MasterAfter(th[t], th[t].reply, master_id)
                      /\ env' = Heard(th[t], id, th[t].reply)
    /\ UNCHANGED <<lock, waitq, cfg, codec>>

\* _process: the except clause of the outer loop
SleepPeriodConstant(r) == BackoffTicks
SleepPeriodNext(r) == BackoffTicks * (r.tryCount + 1)
SleepPeriod(r) == BackoffTicks * r.tryCount
MasterAfterExceptKept == master_id
MasterAfterExcept == None
MayRetryAnyCall(r) == r.elapsed + SleepPeriod(r) <= cfg.master_timeout
MayRetry(r) == r.retry /\ r.elapsed + SleepPeriod(r) <= cfg.master_timeout
Except(t) ==
    /\ th[t].pc = "except"
    /\ master_id' = MasterAfterExcept
    /\ connections' = EmptyPool
    /\ \E left \in LeftOpen(AllNodes) : env' = [env EXCEPT !.orphans = @ \cup left]
    /\ th' = [DropRefs(t, Pooled) EXCEPT ![t] = IF MayRetry(th[t])
                               THEN [th[t] EXCEPT !.pc = "sleep",
                                                  !.tryCount = th[t].tryCount + 1]
                               ELSE [th[t] EXCEPT !.pc = "release"]]
    /\ UNCHANGED <<lock, waitq, cfg, codec>>

\* _process: time.sleep(sleepPeriod), the lock still held
Before(r) == [r EXCEPT !.tryCount = r.tryCount - 1]
LockWhileSleepingReleased(t) == None
LockWhileSleeping(t) == lock
Sleep(t) ==
    /\ th[t].pc = "sleep"
    /\ th' = [th EXCEPT ![t].pc = "attempt",
                        ![t].elapsed = th[t].elapsed + SleepPeriod(Before(th[t]))]
    /\ lock' = LockWhileSleeping(t)
    /\ UNCHANGED <<master_id, connections, waitq, cfg, codec, env>>

\* _process: the finally clause, and what the caller of the operation gets
Release(t) ==
    /\ th[t].pc = "release"
    /\ lock' = None
    /\ th' = [th EXCEPT ![t] =
                IdleTh(th[t].calls, th[t].op,
                       IF th[t].op = "epp" THEN EppOutcome(th[t].exc)
                       ELSE IF th[t].exc = "none" THEN "ok"
                       ELSE ConvertException(th[t].exc))]
    /\ UNCHANGED <<master_id, connections, waitq, cfg, codec, env>>

\* dropConnections: drop_connections, called without the lock
DropConnections(t) ==
    /\ th[t].pc = "drop"
    /\ connections' = EmptyPool
    /\ \E left \in LeftOpen(AllNodes) : env' = [env EXCEPT !.orphans = @ \cup left]
    /\ th' = [DropRefs(t, Pooled) EXCEPT ![t] = IdleTh(th[t].calls, "drop", "ok")]
    /\ UNCHANGED <<master_id, lock, waitq, cfg, codec>>

\* Time passes while a call is running
Tick ==
    \E t \in AllThreads :
      /\ th[t].pc \notin {"idle", "acquire", "sleep"}
      /\ th[t].op \in {"process", "epp"}
      /\ th[t].elapsed < MaxNow
      /\ th' = [th EXCEPT ![t].elapsed = th[t].elapsed + 1]
      /\ UNCHANGED <<master_id, lock, connections, waitq, cfg, codec, env>>

\* A node of the cluster changes its view of who is master
Elect ==
    /\ env.elect > 0
    /\ \E n \in cfg.nodes, m \in cfg.nodes :
         /\ env.who[n] # m
         /\ env' = [env EXCEPT !.who[n] = m, !.elect = env.elect - 1]
    /\ UNCHANGED <<master_id, lock, connections, th, waitq, cfg, codec>>

\* ------------------------------------------------------------------------
\* Specifications
\* ------------------------------------------------------------------------
\* The steps of the threads inside _process, determine_master and _send_message
NextCore ==
    \/ \E t \in AllThreads : Call(t)
    \/ \E t \in AllThreads : Attempt(t)
    \/ \E t \in AllThreads : DetermineMaster(t)
    \/ \E t \in AllThreads : DMLoop(t)
    \/ \E t \in AllThreads : DMCheck(t)
    \/ \E t \in AllThreads : DMEnd(t)
    \/ \E t \in AllThreads : SendMessage(t)
    \/ \E t \in AllThreads : Read(t)
    \/ \E t \in AllThreads : ReadRest(t)
    \/ \E t \in AllThreads : Release(t)

\* ... and its retries
NextRetry ==
    \/ NextCore
    \/ \E t \in AllThreads : Except(t)
    \/ \E t \in AllThreads : Sleep(t)

\* ... while time passes
NextSeq ==
    \/ NextRetry
    \/ Tick

\* ... and dropConnections, and elections in the cluster
Next ==
    \/ NextRetry
    \/ \E t \in AllThreads : Acquire(t)
    \/ \E t \in AllThreads : DropConnections(t)
    \/ Elect

\* The client after ArakoonSocketClient.__init__
InitClient ==
    /\ codec = NoJob
    /\ master_id = None
    /\ lock = None
    /\ connections = EmptyPool
    /\ th = [t \in AllThreads |-> IdleTh(0, "none", "none")]
    /\ waitq = <<>>

AllFaults == {"refused", "prologue_fail", "SockSendError", "SockReadNoBytes",
              "SockRecvError", "SockNotReadable", "NoLongerMaster", "WrongCluster"}

\* What every node answers to WhoMaster, for the nodes ns of the configuration
Views(ns) == {w \in [AllNodes -> ns \cup {None}] : \A n \in AllNodes \ ns : w[n] = None}

InitWith(threads, ns, budgets, views, faults, ks, elect, calls) ==
    /\ InitClient
    /\ \E b \in budgets :
         cfg = [nodes |-> ns, master_timeout |-> MasterTimeoutInit(1, b),
                try_count |-> TryCount]
    /\ \E w \in views, k \in ks :
         env = [threads |-> threads, who |-> w, faults |-> faults, nm |-> k, k |-> k,
                elect |-> elect, calls |-> calls, orphans |-> {}, watch |-> FALSE,
                hear |-> FALSE, heard |-> {}]

\* One thread, two nodes, every fault of the transport
InitSeq ==
    InitWith({"t1"}, {"n1", "n2"}, 0..MaxBudget, Views({"n1", "n2"}), AllFaults, {0}, 0,
             {ProcessCall("Set", None, TRUE), ProcessCall("Set", None, FALSE), EppCall})

SpecSeq == InitSeq /\ [][NextSeq]_vars

\* One thread, two nodes, a transport with every fault, and dropConnections
\* between the requests
NextConn ==
    \/ NextRetry
    \/ \E t \in AllThreads : DropConnections(t)
InitConn ==
    /\ InitClient
    /\ cfg = [nodes |-> {"n1", "n2"}, master_timeout |-> MasterTimeoutInit(1, 0),
             try_count |-> TryCount]
    /\ \E w \in Views({"n1", "n2"}) :
         env = [threads |-> {"t1"}, who |-> w,
                faults |-> {"refused", "prologue_fail", "SockSendError",
                            "SockReadNoBytes", "SockRecvError", "SockNotReadable"},
                nm |-> 0, k |-> 0, elect |-> 0,
                calls |-> {ProcessCall("Set", None, TRUE), WhoMasterCall, DropCall},
                orphans |-> {}, watch |-> TRUE,
                hear |-> FALSE, heard |-> {}]

SpecConn == InitConn /\ [][NextConn]_vars

\* One thread discovering the master among three nodes
InitDisc ==
    InitWith({"t1"}, AllNodes, {0}, Views(AllNodes),
             {"refused", "SockSendError", "SockNotReadable"},
             {0}, 0, {ProcessCall("Set", None, TRUE), WhoMasterCall})

SpecDisc == InitDisc /\ [][NextRetry]_vars

\* Two threads on one client with two nodes: requests, whoMaster and
\* dropConnections side by side, a cluster that holds elections
InitConc ==
    InitWith(AllThreads, {"n1", "n2"}, {0}, {[n \in AllNodes |-> IF n = "n3" THEN None ELSE "n1"]},
             {}, {0}, MaxElect,
             {ProcessCall("Set", None, TRUE), WhoMasterCall, DropCall})

Spec == InitConc /\ [][Next]_vars

\* One thread whose master answers NotMaster to the first k requests; time
\* passes only in the backoff sleeps
InitRetry ==
    InitWith({"t1"}, {"n1", "n2"}, 0..MaxBudget, {[n \in AllNodes |-> IF n = "n3" THEN None ELSE "n1"]},
             {}, 0..MaxK, 0, {ProcessCall("Set", None, TRUE)})

SpecRetry == InitRetry /\ [][NextRetry]_vars

\* One thread, two nodes, connects and sends that fail, and a process whose
\* ARA_CFG_TRY_CNT has been set to MaxTry: _send_message tries again
InitTry ==
    /\ InitClient
    /\ cfg = [nodes |-> {"n1", "n2"}, master_timeout |-> MasterTimeoutInit(1, 1),
              try_count |-> MaxTry]
    /\ \E w \in Views({"n1", "n2"}) :
         env = [threads |-> {"t1"}, who |-> w,
                faults |-> {"refused", "prologue_fail", "SockSendError"},
                nm |-> 0, k |-> 0, elect |-> 0,
                calls |-> {ProcessCall("Set", None, TRUE),
                           ProcessCall("Version", "n2", FALSE)},
                orphans |-> {}, watch |-> TRUE,
                hear |-> FALSE, heard |-> {}]

SpecTry == InitTry /\ [][NextSeq]_vars

\* One thread, two nodes that name n1 or nobody as master and may refuse the
\* connection, close it before the reply or answer NotMaster to every request,
\* calls with and without retry;
\* a thread inside a call goes on running
InitTerm ==
    InitWith({"t1"}, {"n1", "n2"}, 0..MaxBudget,
             {[n \in AllNodes |-> IF n = "n3" THEN None ELSE m] : m \in {"n1", None}},
             {"refused", "SockReadNoBytes"}, {0, MaxK}, 0,
             {ProcessCall("Set", None, TRUE), ProcessCall("Set", None, FALSE)})

SpecTerm == InitTerm /\ [][NextSeq]_vars /\ WF_vars(NextRetry)

\* Two threads on one client with two nodes that name n1, or nobody, as
\* master: requests and whoMaster side by side, the replies watched
NextRace ==
    \/ NextRetry
    \/ \E t \in AllThreads : Acquire(t)
InitRace ==
    /\ InitClient
    /\ cfg = [nodes |-> {"n1", "n2"}, master_timeout |-> MasterTimeoutInit(1, 0),
              try_count |-> TryCount]
    /\ \E m \in {"n1", None} :
         env = [threads |-> AllThreads,
                who |-> [n \in AllNodes |-> IF n = "n3" THEN None ELSE m],
                faults |-> {}, nm |-> 0, k |-> 0, elect |-> 0,
                calls |-> {ProcessCall("Set", None, TRUE), WhoMasterCall},
                orphans |-> {}, watch |-> FALSE, hear |-> TRUE, heard |-> {}]

SpecRace == InitRace /\ [][NextRace]_vars

\* A client built with the default timeouts that has cached a master, and has
\* connections left from earlier requests, when the whole cluster names a new one
UsedConn == Connect(NewConn, "ok")
InitFailover ==
    /\ codec = NoJob
    /\ lock = None
    /\ waitq = <<>>
    /\ th = [t \in AllThreads |-> IdleTh(0, "none", "none")]
    /\ cfg = [nodes |-> AllNodes, master_timeout |-> MasterTimeoutInit(0, 0),
             try_count |-> TryCount]
    /\ \E old \in AllNodes, m \in AllNodes, pool \in SUBSET AllNodes :
         /\ m # old
         /\ pool \in {{}, {old}, AllNodes}
         /\ master_id = old
         /\ env = [threads |-> {"t1"}, who |-> [n \in AllNodes |-> m], faults |-> {},
                   nm |-> 0, k |-> 0, elect |-> 0,
                   calls |-> {ProcessCall("Set", None, TRUE)}, orphans |-> {}, watch |-> FALSE,
                hear |-> FALSE, heard |-> {}]
         /\ connections = [n \in AllNodes |-> IF n \in pool THEN UsedConn ELSE NoConn]

SpecFailover == InitFailover /\ [][NextSeq]_vars /\ WF_vars(NextSeq)

\* ------------------------------------------------------------------------
\* The wire codec (pyrakoon/protocol/types.py)
\* ------------------------------------------------------------------------
\* Python values. Integers of the model stay below 2^31; the bytes they are
\* packed into have the full width of their type.
Val(k, n, s, items) == [k |-> k, n |-> n, s |-> s, items |-> items]
VInt(n) == Val("int", n, <<>>, <<>>)
VStr(s) == Val("str", 0, s, <<>>)
VBool(b) == Val("bool", IF b THEN 1 ELSE 0, <<>>, <<>>)
VNone == Val("none", 0, <<>>, <<>>)
VList(items) == Val("list", 0, <<>>, items)
VTuple(items) == Val("tuple", 0, <<>>, items)
VConsistent == Val("CONSISTENT", 0, <<>>, <<>>)
VInconsistent == Val("INCONSISTENT", 0, <<>>, <<>>)
VAtLeast(i) == Val("AtLeast", i, <<>>, <<>>)

\* The types: w is the size in bytes of the struct.Struct of an integer type
Type(k, w, args) == [k |-> k, w |-> w, args |-> args]
String == Type("string", 0, <<>>)
UINT32 == Type("uint", 4, <<>>)
UINT64 == Type("uint", 8, <<>>)
INT8 == Type("int", 1, <<>>)
INT32 == Type("int", 4, <<>>)
INT64 == Type("int", 8, <<>>)
BOOL == Type("bool", 1, <<>>)
CONSISTENCY == Type("consistency", 0, <<>>)
UNIT == Type("unit", 0, <<>>)
Option(t) == Type("option", 0, <<t>>)
List(t) == Type("list", 0, <<t>>)
Array(t) == Type("array", 0, <<t>>)
Product(ts) == Type("product", 0, ts)

RECURSIVE Flatten(_)
Flatten(ss) == IF ss = <<>> THEN <<>> ELSE Head(ss) \o Flatten(Tail(ss))
Abs(n) == IF n < 0 THEN 0 - n ELSE n

\* struct.Struct.pack of an integer, little-endian, two's complement
RECURSIVE Pack(_, _)
Pack(n, w) == IF w = 0 THEN <<>> ELSE <<n % 256>> \o Pack(n \div 256, w - 1)

\* struct.Struct.unpack of an unsigned and of a signed integer
RECURSIVE UnpackUnsigned(_)
UnpackUnsigned(bs) ==
    IF bs = <<>> THEN 0 ELSE bs[1] + 256 * UnpackUnsigned(Tail(bs))
RECURSIVE UnpackSigned(_)
UnpackSigned(bs) ==
    IF Len(bs) = 1 THEN (IF bs[1] >= 128 THEN bs[1] - 256 ELSE bs[1])
    ELSE bs[1] + 256 * UnpackSigned(Tail(bs))

\* MAX_INT of SignedInteger, for the widths whose bound is below 2^31
MaxInt(w) == IF w = 1 THEN 127 ELSE 2147483647

\* The length of a string and the count of a list, as UINT32.serialize writes them
LengthPrefixWide(n) == Pack(n, 8)
LengthPrefix(n) == Pack(n, 4)

\* Type.check: TRUE when check returns, FALSE when it raises
RECURSIVE Check(_, _)
Check(t, v) ==
    CASE t.k = "string" -> v.k = "str"
      [] t.k = "uint" -> v.k = "int" /\ v.n >= 0
      [] t.k = "int" -> v.k = "int" /\ (t.w = 8 \/ Abs(v.n) <= MaxInt(t.w))
      [] t.k = "bool" -> v.k = "bool"
      [] t.k = "option" -> v.k = "none" \/ Check(t.args[1], v)
      [] t.k = "list" ->
           /\ v.k \in {"list", "tuple"}
           /\ \A j \in 1..Len(v.items) : Check(t.args[1], v.items[j])
      [] t.k = "product" ->
           /\ v.k \in {"list", "tuple"}
           /\ Len(v.items) = Len(t.args)
           /\ \A j \in 1..Len(v.items) : Check(t.args[j], v.items[j])
      [] t.k = "consistency" -> v.k \in {"CONSISTENT", "INCONSISTENT", "none", "AtLeast"}
      [] OTHER -> FALSE

\* Type.serialize, the chunks it yields joined
RECURSIVE Serialize(_, _)
Serialize(t, v) ==
    CASE t.k \in {"uint", "int"} -> Pack(v.n, t.w)
      [] t.k = "bool" -> <<IF v.n # 0 THEN 1 ELSE 0>>
      [] t.k = "string" -> LengthPrefix(Len(v.s)) \o v.s
      [] t.k = "option" ->
           IF v.k = "none" THEN <<0>> ELSE <<1>> \o Serialize(t.args[1], v)
      [] t.k = "list" ->
           LengthPrefix(Len(v.items))
             \o Flatten([j \in 1..Len(v.items) |-> Serialize(t.args[1], v.items[j])])
      [] t.k = "product" ->
           Flatten([j \in 1..Len(t.args) |-> Serialize(t.args[j], v.items[j])])
      [] t.k = "consistency" ->
           IF v.k \in {"CONSISTENT", "none"} THEN <<0>>
           ELSE IF v.k = "INCONSISTENT" THEN <<1>>
           ELSE <<2>> \o Pack(v.n, 8)
      [] OTHER -> <<>>

\* The outcome of driving a receive() coroutine with the bytes bs: the value of
\* its Result and the bytes it did not ask for, or a failure (an exception of
\* the coroutine, or a stream that ends before the Request is served)
Parsed(v, rest) == [ok |-> TRUE, val |-> v, rest |-> rest]
Failed(rest) == [ok |-> FALSE, val |-> VNone, rest |-> rest]
Drop(bs, n) == SubSeq(bs, n + 1, Len(bs))
Take(bs, n) == SubSeq(bs, 1, n)

\* List.receive stores the k-th element read from the wire at values[idx], idx
\* running from count - 1 down to 0; Array.receive runs idx from 0 up
ListIndexForward(count, k) == k
ListIndex(count, k) == count - k + 1
Placed(count, items, j) == items[CHOOSE k \in 1..count : ListIndex(count, k) = j]

RECURSIVE Receive(_, _)
RECURSIVE ReceiveEach(_, _)
\* The receivers of the types ts run one after the other: the values in the
\* order in which they were read
ReceiveEach(ts, bs) ==
    IF ts = <<>> THEN [ok |-> TRUE, vals |-> <<>>, rest |-> bs]
    ELSE LET r == Receive(Head(ts), bs) IN
         IF ~r.ok THEN [ok |-> FALSE, vals |-> <<>>, rest |-> r.rest]
         ELSE LET q == ReceiveEach(Tail(ts), r.rest) IN
              [ok |-> q.ok, vals |-> IF q.ok THEN <<r.val>> \o q.vals ELSE <<>>,
               rest |-> q.rest]

\* Type.receive
Receive(t, bs) ==
    CASE t.k = "uint" ->
           IF Len(bs) < t.w THEN Failed(bs)
           ELSE Parsed(VInt(UnpackUnsigned(Take(bs, t.w))), Drop(bs, t.w))
      [] t.k = "int" ->
           IF Len(bs) < t.w THEN Failed(bs)
           ELSE Parsed(VInt(UnpackSigned(Take(bs, t.w))), Drop(bs, t.w))
      [] t.k = "bool" ->
           IF bs = <<>> \/ bs[1] \notin {0, 1} THEN Failed(bs)
           ELSE Parsed(VBool(bs[1] = 1), Tail(bs))
      [] t.k = "string" ->
           LET l == Receive(UINT32, bs) IN
           IF ~l.ok \/ Len(l.rest) < l.val.n THEN Failed(l.rest)
           ELSE IF l.val.n = 0 THEN Parsed(VStr(<<>>), l.rest)
           ELSE Parsed(VStr(Take(l.rest, l.val.n)), Drop(l.rest, l.val.n))
      [] t.k = "option" ->
           LET h == Receive(BOOL, bs) IN
           IF ~h.ok THEN Failed(h.rest)
           ELSE IF h.val.n = 0 THEN Parsed(VNone, h.rest)
           ELSE Receive(t.args[1], h.rest)
      [] t.k \in {"list", "array"} ->
           LET c == Receive(UINT32, bs) IN
           IF ~c.ok THEN Failed(c.rest)
           ELSE LET q == ReceiveEach([j \in 1..c.val.n |-> t.args[1]], c.rest) IN
                IF ~q.ok THEN Failed(q.rest)
                ELSE IF t.k = "array" THEN Parsed(VList(q.vals), q.rest)
                ELSE Parsed(VList([j \in 1..c.val.n |-> Placed(c.val.n, q.vals, j)]),
                            q.rest)
      [] t.k = "product" ->
           LET q == ReceiveEach(t.args, bs) IN
           IF ~q.ok THEN Failed(q.rest) ELSE Parsed(VTuple(q.vals), q.rest)
      [] t.k = "consistency" ->
           LET g == Receive(INT8, bs) IN
           IF ~g.ok THEN Failed(g.rest)
           ELSE IF g.val.n = 0 THEN Parsed(VConsistent, g.rest)
           ELSE IF g.val.n = 1 THEN Parsed(VInconsistent, g.rest)
           ELSE IF g.val.n = 2
                THEN LET i == Receive(INT64, g.rest) IN
                     IF ~i.ok THEN Failed(i.rest) ELSE Parsed(VAtLeast(i.val.n), i.rest)
           ELSE Failed(g.rest)
      [] t.k = "unit" -> Parsed(VNone, bs)
      [] OTHER -> Failed(bs)

\* The Request objects a receiver yields when it is driven with the bytes bs:
\* their counts in order, how the receiver ends ("result", "ValueError", or
\* "starved" when bs ends before a request is served), and the bytes not read
Asked(counts, end, rest) == [counts |-> counts, end |-> end, rest |-> rest]

\* String.receive: no Request for the data of an empty string
LengthRequestsAlways(n) == <<n>>
LengthRequests(n) == IF n = 0 THEN <<>> ELSE <<n>>

RECURSIVE Requests(_, _)
RECURSIVE RequestsEach(_, _)
RequestsEach(ts, bs) ==
    IF ts = <<>> THEN Asked(<<>>, "result", bs)
    ELSE LET r == Requests(Head(ts), bs) IN
         IF r.end # "result" THEN r
         ELSE LET q == RequestsEach(Tail(ts), r.rest) IN
              Asked(r.counts \o q.counts, q.end, q.rest)

\* Type.receive and its overrides, as the coroutine is seen by its driver
Requests(t, bs) ==
    CASE t.k \in {"uint", "int"} ->
           IF Len(bs) < t.w THEN Asked(<<t.w>>, "starved", bs)
           ELSE Asked(<<t.w>>, "result", Drop(bs, t.w))
      [] t.k = "bool" ->
           IF bs = <<>> THEN Asked(<<1>>, "starved", bs)
           ELSE Asked(<<1>>, IF bs[1] \in {0, 1} THEN "result" ELSE "ValueError", Tail(bs))
      [] t.k = "string" ->
           LET l == Requests(UINT32, bs) IN
           IF l.end # "result" THEN l
           ELSE LET n == UnpackUnsigned(Take(bs, 4)) IN
                IF Len(l.rest) < n
                THEN Asked(l.counts \o LengthRequests(n), "starved", l.rest)
                ELSE Asked(l.counts \o LengthRequests(n), "result", Drop(l.rest, n))
      [] t.k = "option" ->
           LET h == Requests(BOOL, bs) IN
           IF h.end # "result" \/ bs[1] = 0 THEN h
           ELSE LET v == Requests(t.args[1], h.rest) IN
                Asked(h.counts \o v.counts, v.end, v.rest)
      [] t.k \in {"list", "array"} ->
           LET c == Requests(UINT32, bs) IN
           IF c.end # "result" THEN c
           ELSE LET q == RequestsEach([j \in 1..UnpackUnsigned(Take(bs, 4)) |-> t.args[1]],
                                      c.rest) IN
                Asked(c.counts \o q.counts, q.end, q.rest)
      [] t.k = "product" -> RequestsEach(t.args, bs)
      [] t.k = "consistency" ->
           LET g == Requests(INT8, bs) IN
           IF g.end # "result" THEN g
           ELSE IF UnpackSigned(Take(bs, 1)) \in {0, 1} THEN g
           ELSE IF UnpackSigned(Take(bs, 1)) = 2
                THEN LET i == Requests(INT64, g.rest) IN
                     Asked(g.counts \o i.counts, i.end, i.rest)
           ELSE Asked(g.counts, "ValueError", g.rest)
      [] OTHER -> Asked(<<>>, "result", bs)

\* ------------------------------------------------------------------------
\* Replies (pyrakoon/protocol/messages/base.py, pyrakoon/errors)
\* ------------------------------------------------------------------------
\* The result code of a reply that carries a return value
RESULT_SUCCESS == 0

\* errors.ERROR_MAP: the CODE of every error class that has one, and the class
ERROR_MAP_NoBadInput ==
    {<<255, "UnknownFailure">>, <<3, "NoHello">>, <<4, "NotMaster">>,
     <<6, "WrongCluster">>, <<16, "GoingDown">>, <<33, "NoLongerMaster">>,
     <<254, "MaxConnections">>, <<2, "TooManyDeadNodes">>, <<1, "NoMagic">>,
     <<5, "NotFound">>, <<7, "AssertionFailed">>, <<8, "ReadOnly">>,
     <<9, "OutsideInterval">>, <<32, "NotSupported">>, <<128, "InconsistentRead">>}
ERROR_MAP ==
    {<<255, "UnknownFailure">>, <<3, "NoHello">>, <<4, "NotMaster">>,
     <<6, "WrongCluster">>, <<16, "GoingDown">>, <<33, "NoLongerMaster">>,
     <<254, "MaxConnections">>, <<2, "TooManyDeadNodes">>, <<1, "NoMagic">>,
     <<5, "NotFound">>, <<7, "AssertionFailed">>, <<8, "ReadOnly">>,
     <<9, "OutsideInterval">>, <<32, "NotSupported">>, <<38, "BadInput">>,
     <<128, "InconsistentRead">>}

\* '%x' % n: the hexadecimal digits of n, most significant first
RECURSIVE Hex(_)
Hex(n) == IF n < 16 THEN <<n>> ELSE Hex(n \div 16) \o <<n % 16>>

\* What Message.receive ends with: a Result, or an exception and its argument
Returned(v) == [raised |-> "none", value |-> v, fmt |-> "", x |-> <<>>, s |-> <<>>]
Raised(cls, fmt, x, s) == [raised |-> cls, value |-> VNone, fmt |-> fmt, x |-> x, s |-> s]

\* Message.receive of a message whose RETURN_TYPE is t, driven with bs: the
\* Requests of the result code, then those of the return value or of the
\* message of the error
MessageRequests(t, bs) ==
    LET code == Requests(UINT32, bs) IN
    IF code.end # "result" THEN code
    ELSE LET result == Requests(IF UnpackUnsigned(Take(bs, 4)) = RESULT_SUCCESS
                                THEN t ELSE String, code.rest) IN
         Asked(code.counts \o result.counts, result.end, result.rest)

\* Message.receive of a message whose RETURN_TYPE is t, driven with bs
MessageReceiveOutcome(t, bs) ==
    LET code == Receive(UINT32, bs) IN
    IF ~code.ok THEN Raised("incomplete", "", <<>>, <<>>)
    ELSE LET result == IF code.val.n = RESULT_SUCCESS THEN Receive(t, code.rest)
                       ELSE Receive(String, code.rest) IN
         IF ~result.ok THEN Raised("incomplete", "", <<>>, <<>>)
         ELSE IF code.val.n = RESULT_SUCCESS THEN Returned(result.val)
         ELSE IF \E e \in ERROR_MAP : e[1] = code.val.n
              THEN Raised((CHOOSE e \in ERROR_MAP : e[1] = code.val.n)[2], "%s", <<>>,
                          result.val.s)
         ELSE Raised("ArakoonError", "Unknown error code 0x%x, server said: %s",
                     Hex(code.val.n), result.val.s)

MessageReceive ==
    /\ codec.pc = "frame"
    /\ codec' = [codec EXCEPT !.pc = "replied",
                               !.reply = MessageReceiveOutcome(codec.ty, codec.bytes),
                               !.asked = MessageRequests(codec.ty, codec.bytes)]
    /\ UNCHANGED <<master_id, lock, connections, th, waitq, cfg, env>>

\* ------------------------------------------------------------------------
\* The sequence language (pyrakoon/sequence)
\* ------------------------------------------------------------------------
\* A step: its class, the arguments of its constructor, and for a Sequence
\* its steps
Step(cls, args, steps) == [cls |-> cls, args |-> args, steps |-> steps]
Sequence(steps) == Step("Sequence", <<>>, steps)

\* TAG of the step classes
StepTag(cls) ==
    CASE cls = "Set" -> 1
      [] cls = "Delete" -> 2
      [] cls = "Sequence" -> 5
      [] cls = "Assert" -> 8
      [] cls = "DeletePrefix" -> 14
      [] cls = "AssertExists" -> 15
      [] cls = "Replace" -> 16

\* ARGS of the step classes: the types, in the order of the declaration
StepArgsLastFirst(cls) ==
    CASE cls \in {"Set"} -> <<String, String>>
      [] cls \in {"Assert", "Replace"} -> <<Option(String), String>>
      [] cls \in {"Delete", "DeletePrefix", "AssertExists"} -> <<String>>
      [] OTHER -> <<>>
StepArgs(cls) ==
    CASE cls \in {"Set"} -> <<String, String>>
      [] cls \in {"Assert", "Replace"} -> <<String, Option(String)>>
      [] cls \in {"Delete", "DeletePrefix", "AssertExists"} -> <<String>>
      [] OTHER -> <<>>

\* Step.__init__: TRUE when it returns, FALSE when it raises
StepCheck(cls, args) ==
    /\ Len(args) = Len(StepArgs(cls))
    /\ \A j \in 1..Len(args) : Check(StepArgs(cls)[j], args[j])

\* len(self.steps) of a Sequence
RECURSIVE StepCountDeep(_)
StepCountDeep(steps) ==
    IF steps = <<>> THEN 0
    ELSE 1 + StepCountDeep(Head(steps).steps) + StepCountDeep(Tail(steps))
StepCount(steps) == Len(steps)

\* Step.serialize and Sequence.serialize, the chunks joined
RECURSIVE StepSerialize(_)
StepSerialize(step) ==
    IF step.cls = "Sequence"
    THEN Pack(StepTag(step.cls), 4) \o Pack(StepCount(step.steps), 4)
           \o Flatten([j \in 1..Len(step.steps) |-> StepSerialize(step.steps[j])])
    ELSE Pack(StepTag(step.cls), 4)
           \o Flatten([j \in 1..Len(StepArgs(step.cls)) |->
                         Serialize(StepArgs(step.cls)[j], step.args[j])])

SerializeStep ==
    /\ codec.pc = "step"
    /\ codec' = [codec EXCEPT !.pc = "stepwire", !.bytes = StepSerialize(codec.step)]
    /\ UNCHANGED <<master_id, lock, connections, th, waitq, cfg, env>>

\* ------------------------------------------------------------------------
\* Messages (pyrakoon/protocol/messages)
\* ------------------------------------------------------------------------
\* Message.MASK, 0xb1ff0000, as the 32-bit pattern it is packed to
\* (0xb1ff0000 - 2^32): code | MASK is code + MASK for the codes below 2^16
MASK == -1308688384

Arg(name, type) == [name |-> name, type |-> type]
CONSISTENCY_ARG == Arg("consistency", CONSISTENCY)

\* ARGS of the interface classes
KeyMessage == <<Arg("key", String)>>
KeyValueMessage == <<Arg("key", String), Arg("value", String)>>
KeyConsistencyMessage == <<CONSISTENCY_ARG, Arg("key", String)>>
KeysConsistencyMessage == <<CONSISTENCY_ARG, Arg("keys", List(String))>>
RangeMessageKeysFirst ==
    <<Arg("begin_key", Option(String)), CONSISTENCY_ARG, Arg("begin_inclusive", BOOL),
      Arg("end_key", Option(String)), Arg("end_inclusive", BOOL),
      Arg("max_elements", INT32)>>
RangeMessage ==
    <<CONSISTENCY_ARG, Arg("begin_key", Option(String)), Arg("begin_inclusive", BOOL),
      Arg("end_key", Option(String)), Arg("end_inclusive", BOOL),
      Arg("max_elements", INT32)>>

\* The message classes that serialise with Message.serialize
MessageClasses ==
    {"Hello", "WhoMaster", "ExpectProgressPossible", "Statistics", "Version", "Nop",
     "GetCurrentState", "GetTxID", "UserFunction", "GetKeyCount",
     "PrefixKeys", "MultiGet", "MultiGetOption", "RevRangeEntries", "Range",
     "RangeEntries", "Exists", "Assert", "AssertExists",
     "Get", "Set", "Delete", "TestAndSet", "Confirm", "DeletePrefix", "Replace"}

\* TAG of a message class, before the mask
MessageCode(cls) ==
    CASE cls = "Hello" -> 1
      [] cls = "WhoMaster" -> 2
      [] cls = "Exists" -> 7
      [] cls = "Get" -> 8
      [] cls = "Set" -> 9
      [] cls = "Delete" -> 10
      [] cls = "Range" -> 11
      [] cls = "PrefixKeys" -> 12
      [] cls = "TestAndSet" -> 13
      [] cls = "RangeEntries" -> 15
      [] cls = "MultiGet" -> 17
      [] cls = "ExpectProgressPossible" -> 18
      [] cls = "Statistics" -> 19
      [] cls = "UserFunction" -> 21
      [] cls = "Assert" -> 22
      [] cls = "GetKeyCount" -> 26
      [] cls = "Confirm" -> 28
      [] cls = "RevRangeEntries" -> 35
      [] cls = "DeletePrefix" -> 39
      [] cls = "Version" -> 40
      [] cls = "AssertExists" -> 41
      [] cls = "MultiGetOption" -> 49
      [] cls = "GetCurrentState" -> 50
      [] cls = "Replace" -> 51
      [] cls = "Nop" -> 65
      [] cls = "GetTxID" -> 67
MessageTag(cls) == MessageCode(cls) + MASK

\* ARGS of a message class
MessageArgs(cls) ==
    CASE cls = "Hello" -> <<Arg("client_id", String), Arg("cluster_id", String)>>
      [] cls = "UserFunction" ->
           <<Arg("function", String), Arg("argument", Option(String))>>
      [] cls = "PrefixKeys" ->
           <<CONSISTENCY_ARG, Arg("prefix", String), Arg("max_elements", INT32)>>
      [] cls \in {"MultiGet", "MultiGetOption"} -> KeysConsistencyMessage
      [] cls \in {"RevRangeEntries", "Range", "RangeEntries"} -> RangeMessage
      [] cls \in {"Exists", "AssertExists", "Get"} -> KeyConsistencyMessage
      [] cls = "Assert" ->
           <<CONSISTENCY_ARG, Arg("key", String), Arg("value", Option(String))>>
      [] cls \in {"Set", "Confirm"} -> KeyValueMessage
      [] cls = "Delete" -> KeyMessage
      [] cls = "TestAndSet" ->
           <<Arg("key", String), Arg("test_value", Option(String)),
             Arg("set_value", Option(String))>>
      [] cls = "DeletePrefix" -> <<Arg("prefix", String)>>
      [] cls = "Replace" -> <<Arg("key", String), Arg("value", Option(String))>>
      [] OTHER -> <<>>

\* Message.serialize: the tag, then the attribute named by each entry of ARGS
MessageSerialize(msg) ==
    LET args == MessageArgs(msg.cls) IN
    Pack(MessageTag(msg.cls), 4)
      \o Flatten([j \in 1..Len(args) |-> Serialize(args[j].type, msg.attrs[args[j].name])])

SerializeMessage ==
    /\ codec.pc = "message"
    /\ codec' = [codec EXCEPT !.pc = "messagewire", !.bytes = MessageSerialize(codec.msg)]
    /\ UNCHANGED <<master_id, lock, connections, th, waitq, cfg, env>>

\* crud.Sequence.__init__: the sequence the message holds for the given steps
SequenceOfWrapped(steps) == Sequence(steps)
SequenceOf(steps) ==
    IF Len(steps) = 1 /\ steps[1].cls = "Sequence" THEN steps[1] ELSE Sequence(steps)

\* crud.Sequence.serialize
SequenceMessageSerialize(steps, sync) ==
    Pack((IF ~sync THEN 16 ELSE 36) + MASK, 4)
      \o Serialize(String, VStr(StepSerialize(SequenceOf(steps))))

SerializeSequence ==
    /\ codec.pc = "sequence"
    /\ codec' = [codec EXCEPT !.pc = "sequencewire",
                               !.bytes = SequenceMessageSerialize(codec.steps, codec.sync)]
    /\ UNCHANGED <<master_id, lock, connections, th, waitq, cfg, env>>

\* A value of a type on its way through serialize and receive
\* ArakoonClientConfig.getNodeLocation: of the addresses (ips, port) of a node,
\* the index of the one a connection is made to
GetNodeLocation(ips) == 1

\* _get_connection for a node that has no connection in the pool, and the send
\* that follows: the connection object is given getNodeLocation(node_id), its
\* connect() swallows a failure, and send() calls connect() once more on the
\* same address before it raises NotConnected. ips tells for every address of
\* the node whether it accepts connections; tried lists the addresses
\* create_connection was called with.
GetConnection ==
    /\ codec.pc = "locate"
    /\ LET a == GetNodeLocation(codec.ips)
           c1 == Connect(NewConn, IF codec.ips[a] THEN "ok" ELSE "refused")
           c2 == IF c1.connected THEN c1
                 ELSE Connect(c1, IF codec.ips[a] THEN "ok" ELSE "refused")
       IN codec' = [codec EXCEPT !.pc = "located",
                                 !.tried = IF c1.connected THEN <<a>> ELSE <<a, a>>,
                                 !.conn = c2,
                                 !.exc = IF c2.connected THEN "none" ELSE "NotConnected"]
    /\ UNCHANGED <<master_id, lock, connections, th, waitq, cfg, env>>

\* convert_exceptions around a method that raises codec.exc
ConvertExceptions ==
    /\ codec.pc = "raise"
    /\ codec' = [codec EXCEPT !.pc = "converted", !.out = ConvertException(codec.exc)]
    /\ UNCHANGED <<master_id, lock, connections, th, waitq, cfg, env>>

\* validate_types of pyrakoon/client/utils.py and the errors of Type.check
\* A Python integer above 2^64, beyond every integer type of the protocol
VLong == Val("long", 0, <<>>, <<>>)

\* The exception Type.check raises for a value it rejects, "none" when it returns
RECURSIVE CheckRaises(_, _)
CheckRaises(t, v) ==
    CASE Check(t, v) -> "none"
      [] t.k \in {"uint", "int"} -> IF v.k \in {"int", "long"} THEN "ValueError" ELSE "TypeError"
      [] t.k = "consistency" -> "ValueError"
      [] t.k = "option" -> CheckRaises(t.args[1], v)
      [] t.k = "list" ->
           IF v.k \notin {"list", "tuple"} THEN "TypeError"
           ELSE LET bad == {j \in 1..Len(v.items) : ~Check(t.args[1], v.items[j])}
                IN CheckRaises(t.args[1], v.items[CHOOSE j \in bad : \A k \in bad : j <= k])
      [] t.k = "product" ->
           IF v.k \notin {"list", "tuple"} THEN "TypeError"
           ELSE IF Len(v.items) # Len(t.args) THEN "ValueError"
           ELSE LET bad == {j \in 1..Len(v.items) : ~Check(t.args[j], v.items[j])}
                    b == CHOOSE j \in bad : \A k \in bad : j <= k
                IN CheckRaises(t.args[b], v.items[b])
      [] OTHER -> "TypeError"

\* validate_types: the error of the first argument its type rejects
ValidateTypesNone(specs, attrs) == "none"
ValidateTypes(specs, attrs) ==
    LET bad == {j \in 1..Len(specs) : ~Check(specs[j].type, attrs[specs[j].name])}
    IN IF bad = {} THEN "none"
       ELSE LET b == CHOOSE j \in bad : \A k \in bad : j <= k
            IN CheckRaises(specs[b].type, attrs[specs[b].name])

\* The consistency classes of the compat layer (pyrakoon/compat/consistency.py)
CConsistent == [c |-> "Consistent", i |-> 0]
CNoGuarantee == [c |-> "NoGuarantee", i |-> 0]
CAtLeast(i) == [c |-> "AtLeast", i |-> i]

\* ArakoonClient._determine_consistency: the consistency of the core for the
\* one the caller provided (None is written VNone) or else the client's own
DetermineConsistency(provided, own) ==
    LET d == IF provided # VNone THEN provided ELSE own
    IN CASE d.c = "Consistent" -> VConsistent
         [] d.c = "NoGuarantee" -> VInconsistent
         [] d.c = "AtLeast" -> VAtLeast(d.i)

\* The read methods of ArakoonClient that take no consistency from the caller
\* here, and the consistency each passes on to the method of the core client
ReadOps == {"get", "exists", "range", "range_entries", "rev_range_entries", "prefix",
            "multiGet", "multiGetOption"}
PassedOn(op, own) ==
    IF op = "exists" THEN VNone ELSE DetermineConsistency(VNone, own)

\* The message the method of the core client builds for a read
ReadMessage(op, cons) ==
    LET range == ("consistency" :> cons) @@ ("begin_key" :> VStr(<<97>>))
                   @@ ("begin_inclusive" :> VBool(TRUE)) @@ ("end_key" :> VNone)
                   @@ ("end_inclusive" :> VBool(FALSE)) @@ ("max_elements" :> VInt(-1))
        key == ("consistency" :> cons) @@ ("key" :> VStr(<<97>>))
        keys == ("consistency" :> cons) @@ ("keys" :> VList(<<VStr(<<97>>)>>))
    IN CASE op = "get" -> [cls |-> "Get", attrs |-> key]
         [] op = "exists" -> [cls |-> "Exists", attrs |-> key]
         [] op = "range" -> [cls |-> "Range", attrs |-> range]
         [] op = "range_entries" -> [cls |-> "RangeEntries", attrs |-> range]
         [] op = "rev_range_entries" -> [cls |-> "RevRangeEntries", attrs |-> range]
         [] op = "prefix" ->
              [cls |-> "PrefixKeys",
               attrs |-> ("consistency" :> cons) @@ ("prefix" :> VStr(<<97>>))
                           @@ ("max_elements" :> VInt(-1))]
         [] op = "multiGet" -> [cls |-> "MultiGet", attrs |-> keys]
         [] op = "multiGetOption" -> [cls |-> "MultiGetOption", attrs |-> keys]

\* setConsistency(c), allowDirtyReads(), disallowDirtyReads()
SetConsistency ==
    /\ codec.pc = "client"
    /\ \E c \in {CConsistent, CNoGuarantee, CAtLeast(0), CAtLeast(70000), CAtLeast(-1)} :
         codec' = [codec EXCEPT !.consistency = c, !.op = "none", !.wire = <<>>,
                                 !.exc = "none"]
    /\ UNCHANGED <<master_id, lock, connections, th, waitq, cfg, env>>
AllowDirtyReads ==
    /\ codec.pc = "client"
    /\ codec' = [codec EXCEPT !.consistency = CNoGuarantee, !.op = "none", !.wire = <<>>,
                              !.exc = "none"]
    /\ UNCHANGED <<master_id, lock, connections, th, waitq, cfg, env>>
DisallowDirtyReads ==
    /\ codec.pc = "client"
    /\ codec' = [codec EXCEPT !.consistency = CConsistent, !.op = "none", !.wire = <<>>,
                              !.exc = "none"]
    /\ UNCHANGED <<master_id, lock, connections, th, waitq, cfg, env>>

\* A read method called without a consistency of its own: the method of the
\* core client validates the arguments, and _process serialises the message
ReadOp ==
    /\ codec.pc = "client"
    /\ \E op \in ReadOps :
         LET msg == ReadMessage(op, PassedOn(op, codec.consistency))
             e == ValidateTypes(MessageArgs(msg.cls), msg.attrs)
         IN codec' = [codec EXCEPT
                        !.op = op, !.exc = e,
                        !.wire = IF e = "none" THEN MessageSerialize(msg) ELSE <<>>]
    /\ UNCHANGED <<master_id, lock, connections, th, waitq, cfg, env>>

\* ArakoonAdmin.collapse on a client built with codec.timeout: _timeout is set
\* to None around _process, which sends to the node on the connection that
\* _get_connection returns: the one in the pool when there is one, with the
\* timeout it was built with (in an earlier request, or in an earlier
\* collapse), else a new one built with the client's _timeout of the moment.
\* readTimeout is the timeout of the select in the reads of the reply.
\* The call returns, or raises with the connection left in the pool (an error
\* reply, a receive error), or raises after the handlers of _send_message or
\* _process have taken the connection out of the pool; laterTimeout is the
\* timeout of the reads of the next request to that node, on the pooled
\* connection or on a new one built with the restored _timeout.
Collapse ==
    /\ codec.pc = "collapse"
    /\ \E out \in {"returned", "raised", "dropped"} :
         LET x == codec.timeout
             during == -1
             conn == CASE codec.pooled = "request" -> ConnTimeoutInit(x)
                       [] codec.pooled = "collapse" -> ConnTimeoutInit(during)
                       [] OTHER -> ConnTimeoutInit(during)
         IN codec' = [codec EXCEPT !.pc = "collapsed", !.readTimeout = conn,
                                   !.timeoutAfter = x, !.out = out,
                                   !.laterTimeout = IF out = "dropped"
                                                    THEN ConnTimeoutInit(x) ELSE conn]
    /\ UNCHANGED <<master_id, lock, connections, th, waitq, cfg, env>>

\* ArakoonClient(config, timeout, noMasterTimeout): ArakoonSocketClient.__init__
\* with the arguments the caller supplied, the defaults (0) for the others
Construct ==
    /\ codec.pc = "new"
    /\ cfg' = [cfg EXCEPT !.master_timeout =
                  MasterTimeoutInit(codec.timeout, codec.noMasterTimeout)]
    /\ codec' = [codec EXCEPT !.pc = "constructed"]
    /\ UNCHANGED <<master_id, lock, connections, th, waitq, env>>

TypeSerialize ==
    /\ codec.pc = "value"
    /\ codec' = [codec EXCEPT !.pc = "wire", !.bytes = Serialize(codec.ty, codec.val)]
    /\ UNCHANGED <<master_id, lock, connections, th, waitq, cfg, env>>

TypeReceive ==
    /\ codec.pc = "wire"
    /\ codec' = [codec EXCEPT !.pc = "parsed", !.out = Receive(codec.ty, codec.bytes)]
    /\ UNCHANGED <<master_id, lock, connections, th, waitq, cfg, env>>

\* ------------------------------------------------------------------------
\* Replies that violate the protocol (SocketClient._process,
\* ArakoonSocketClient._process)
\* ------------------------------------------------------------------------
\* What the handlers of _process do with the socket when the receiver raises
\* ValueError: SocketClient closes it and forgets it (any exception that is not
\* an ArakoonError); ArakoonSocketClient catches NotMaster, ArakoonNoMaster,
\* ArakoonNotConnected and ArakoonSockReadNoBytes only, the connection stays
\* in the pool as it is.
OpenAfterViolationClosed(client) == FALSE
OpenAfterViolation(client) == client # "SocketClient"

\* A request on a client whose socket holds the bytes unread: the reply of the
\* server arrives behind them, and the receiver of the message reads from the
\* front. sent counts the requests, mixed tells that a request was written on
\* a socket that still held bytes of an earlier reply.
StreamProcess ==
    /\ codec.pc = "stream"
    /\ codec.sent < MaxCalls
    /\ IF ~codec.open
       THEN codec' = [codec EXCEPT !.sent = @ + 1, !.out = "NotConnected"]
       ELSE LET onwire == codec.unread \o (IF codec.sent = 0 THEN codec.first ELSE codec.later)
                a == MessageRequests(codec.ty, onwire)
            IN codec' = [codec EXCEPT
                           !.sent = @ + 1,
                           !.mixed = @ \/ codec.unread # <<>>,
                           !.out = a.end,
                           !.open = CASE a.end = "ValueError" -> OpenAfterViolation(codec.client)
                                      [] a.end = "starved" -> FALSE
                                      [] OTHER -> TRUE,
                           !.unread = IF a.end = "result" \/ (a.end = "ValueError"
                                            /\ OpenAfterViolation(codec.client))
                                      THEN a.rest ELSE <<>>]
    /\ UNCHANGED <<master_id, lock, connections, th, waitq, cfg, env>>

NextCodec ==
    \/ TypeSerialize
    \/ TypeReceive
    \/ MessageReceive
    \/ SerializeStep
    \/ SerializeMessage
    \/ SerializeSequence
    \/ Construct
    \/ GetConnection
    \/ Collapse
    \/ ConvertExceptions
    \/ SetConsistency
    \/ AllowDirtyReads
    \/ DisallowDirtyReads
    \/ ReadOp
    \/ StreamProcess

\* The values the codec is run on
Ints == {0, 1, 127, 128, 255, 256, 65535, 65536, 2147483647,
         -1, -127, -128, -129, -32768, -2147483647}
Strs == {<<>>, <<97>>, <<0, 255>>, <<97, 98, 99>>}
SeqsUpTo(S, n) == UNION {[1..m -> S] : m \in 0..n}
Containers(S) ==
    {VList(q) : q \in SeqsUpTo(S, MaxLen)} \cup {VTuple(q) : q \in SeqsUpTo(S, MaxLen)}
Candidates(t, vs) == {[ty |-> t, val |-> v] : v \in vs}
Samples ==
    LET cs ==
          UNION {Candidates(t, {VInt(n) : n \in Ints}) :
                   t \in {UINT32, UINT64, INT8, INT32, INT64}}
          \cup Candidates(String, {VStr(x) : x \in Strs})
          \cup Candidates(BOOL, {VBool(TRUE), VBool(FALSE)})
          \cup Candidates(Option(String), {VNone} \cup {VStr(x) : x \in Strs})
          \cup Candidates(Option(INT8), {VNone, VInt(-1), VInt(0), VInt(128)})
          \cup Candidates(List(String), Containers({VStr(<<>>), VStr(<<97>>)}))
          \cup Candidates(List(INT32), Containers({VInt(-1), VInt(256)}))
          \cup Candidates(List(Option(BOOL)), Containers({VNone, VBool(TRUE)}))
          \cup Candidates(List(List(BOOL)),
                          Containers({VList(<<>>), VList(<<VBool(TRUE), VBool(FALSE)>>)}))
          \cup Candidates(Product(<<String, INT32>>),
                          {VTuple(<<VStr(<<97>>), VInt(-1)>>), VList(<<VStr(<<>>), VInt(7)>>),
                           VTuple(<<VStr(<<97>>)>>)})
          \cup Candidates(Product(<<>>), {VTuple(<<>>), VList(<<>>)})
          \cup Candidates(Product(<<BOOL, List(UINT32)>>),
                          {VTuple(<<VBool(TRUE), VList(<<VInt(1), VInt(2)>>)>>)})
          \cup Candidates(CONSISTENCY,
                          {VConsistent, VInconsistent, VNone, VAtLeast(0), VAtLeast(-1),
                           VAtLeast(70000), VStr(<<>>)})
    IN {c \in cs : Check(c.ty, c.val)}

\* Everything but the codec at rest
InitAtRest ==
    /\ master_id = None
    /\ lock = None
    /\ connections = EmptyPool
    /\ th = [t \in AllThreads |-> IdleTh(0, "none", "none")]
    /\ waitq = <<>>
    /\ cfg = [nodes |-> {}, master_timeout |-> 0, try_count |-> TryCount]
    /\ env = [threads |-> {}, who |-> [n \in AllNodes |-> None], faults |-> {},
              nm |-> 0, k |-> 0, elect |-> 0, calls |-> {}, orphans |-> {}, watch |-> FALSE,
                hear |-> FALSE, heard |-> {}]

\* The replies of a server: a result code, then the return value of the
\* message (code RESULT_SUCCESS) or a string
Codes ==
    (0..10) \cup {16, 17, 32, 33, 38, 39, 128, 254, 255, 256, 257, 65541, 2147483647}
ReturnTypes == {UNIT, String, Option(String), UINT32, BOOL, List(String)}
Frames ==
    {[pc |-> "frame", ty |-> c.ty, code |-> RESULT_SUCCESS, val |-> c.val,
      bytes |-> Pack(RESULT_SUCCESS, 4) \o Serialize(c.ty, c.val),
      reply |-> Returned(VNone), asked |-> Asked(<<>>, "none", <<>>)] :
       c \in {d \in Samples : d.ty \in ReturnTypes} \cup {[ty |-> UNIT, val |-> VNone]}}
    \cup
    {[pc |-> "frame", ty |-> t, code |-> c, val |-> VStr(m),
      bytes |-> Pack(c, 4) \o Serialize(String, VStr(m)),
      reply |-> Returned(VNone), asked |-> Asked(<<>>, "none", <<>>)] :
       t \in {UNIT, String}, c \in Codes \ {RESULT_SUCCESS}, m \in Strs}

\* The steps serialize is run on: every class with every mix of arguments, and
\* sequences of them, nested
Keys == {<<>>, <<97>>, <<0, 255>>}
Wanted == {VNone, VStr(<<>>), VStr(<<98, 99>>)}
Leaves ==
    {Step("Set", <<VStr(k), VStr(v)>>, <<>>) : k \in Keys, v \in Keys}
    \cup {Step(c, <<VStr(k)>>, <<>>) :
            c \in {"Delete", "DeletePrefix", "AssertExists"}, k \in Keys}
    \cup {Step(c, <<VStr(k), w>>, <<>>) : c \in {"Assert", "Replace"}, k \in Keys, w \in Wanted}
FewLeaves ==
    {Step("Set", <<VStr(<<97>>), VStr(<<>>)>>, <<>>),
     Step("Delete", <<VStr(<<0, 255>>)>>, <<>>),
     Step("Replace", <<VStr(<<97>>), VNone>>, <<>>)}
Flat == {Sequence(q) : q \in SeqsUpTo(FewLeaves, MaxLen)}
Nested ==
    {Sequence(q) :
       q \in SeqsUpTo({Step("Assert", <<VStr(<<>>), VStr(<<97>>)>>, <<>>),
                       Step("AssertExists", <<VStr(<<97>>)>>, <<>>),
                       Sequence(<<>>),
                       Sequence(<<Step("DeletePrefix", <<VStr(<<97>>)>>, <<>>),
                                  Sequence(<<Step("Delete", <<VStr(<<>>)>>, <<>>)>>)>>)},
                      MaxLen)}
Steps == Leaves \cup Flat \cup Nested
InitSteps ==
    \E st \in Steps :
       /\ StepCheck(st.cls, st.args)
       /\ codec = [pc |-> "step", step |-> st, bytes |-> <<>>]

\* The messages serialize is run on: every class with every mix of attributes
AttrValues(t) ==
    CASE t = String -> {VStr(<<>>), VStr(<<97>>)}
      [] t = Option(String) -> Wanted
      [] t = BOOL -> {VBool(TRUE), VBool(FALSE)}
      [] t = INT32 -> {VInt(-1), VInt(0), VInt(256)}
      [] t = List(String) -> {VList(q) : q \in SeqsUpTo({VStr(<<>>), VStr(<<97>>)}, MaxLen)}
      [] t = CONSISTENCY ->
           {VNone, VConsistent, VInconsistent, VAtLeast(0), VAtLeast(70000)}
RECURSIVE Attrs(_)
Attrs(args) ==
    IF args = <<>> THEN {<<>>}
    ELSE {(Head(args).name :> v) @@ rest :
            v \in AttrValues(Head(args).type), rest \in Attrs(Tail(args))}
Messages == UNION {{[cls |-> c, attrs |-> a] : a \in Attrs(MessageArgs(c))} : c \in MessageClasses}
InitMessages ==
    \E m \in Messages : codec = [pc |-> "message", msg |-> m, bytes |-> <<>>]

\* The lists of steps a Sequence message is built from
StepLists ==
    SeqsUpTo({Step("Set", <<VStr(<<97>>), VStr(<<>>)>>, <<>>),
              Step("Delete", <<VStr(<<0, 255>>)>>, <<>>),
              Sequence(<<>>),
              Sequence(<<Step("Replace", <<VStr(<<97>>), VNone>>, <<>>), Sequence(<<>>)>>)},
             MaxLen)
InitSequences ==
    \E q \in StepLists, b \in BOOLEAN :
       codec = [pc |-> "sequence", steps |-> q, sync |-> b, bytes |-> <<>>]

\* The arguments of the constructor, in ticks of the backoff period (0.2 s); a
\* timeout of None is written -1; an argument that is not supplied has its
\* default, 0
InitConstruct ==
    \E timeout \in {-1, 0, 1, 25}, supplied \in BOOLEAN, n \in {0, 1, 50, NoMasterRetryTicks, 600},
       given \in BOOLEAN :
       codec = [pc |-> "new", timeoutSupplied |-> given,
                timeout |-> IF given THEN timeout ELSE 0, supplied |-> supplied,
                noMasterTimeout |-> IF supplied THEN n ELSE 0]

\* A node configured with one to three addresses, each reachable or not
InitLocate ==
    \E ips \in UNION {[1..m -> BOOLEAN] : m \in 1..3} :
       codec = [pc |-> "locate", ips |-> ips, tried |-> <<>>, conn |-> NoConn, exc |-> "none"]

\* A client built with a timeout (None is written -1) whose pool holds no
\* connection to the node, one that a request opened, or one that a collapse opened
InitCollapse ==
    \E timeout \in {-1, 0, 1, 25}, pooled \in {"none", "request", "collapse"} :
       codec = [pc |-> "collapse", timeout |-> timeout, pooled |-> pooled,
                readTimeout |-> 0, timeoutAfter |-> 0, out |-> "none",
                laterTimeout |-> 0]

\* ArakoonClient.__init__: _consistency = Consistent()
InitConsistency ==
    codec = [pc |-> "client", consistency |-> CConsistent, op |-> "none", wire |-> <<>>,
             exc |-> "none"]

\* What a method of the compat client may raise: the errors of the server, the
\* errors of the argument checks, the errors of the compat layer itself
InitRaise ==
    \E e \in ArakoonErrors \cup CompatErrors
              \cup {"TypeError", "ValueError", "ArakoonInvalidArguments", "KeyError"} :
       codec = [pc |-> "raise", exc |-> e, out |-> "none"]

\* A connected client, and the replies its node sends to the first request and
\* to the later ones: well-formed ones, and ones with a bool byte or a
\* consistency tag outside the protocol and bytes behind it
InitStream ==
    \E client \in {"SocketClient", "ArakoonSocketClient"},
       r \in {[ty |-> BOOL, first |-> <<0, 0, 0, 0, 1>>],
              [ty |-> BOOL, first |-> <<0, 0, 0, 0, 2>>],
              [ty |-> CONSISTENCY, first |-> <<0, 0, 0, 0, 1>>],
              [ty |-> CONSISTENCY, first |-> <<0, 0, 0, 0, 3, 7>>],
              [ty |-> List(Option(String)), first |-> <<0, 0, 0, 0, 1, 0, 0, 0, 0>>],
              [ty |-> List(Option(String)), first |-> <<0, 0, 0, 0, 2, 0, 0, 0, 5, 0>>]} :
       codec = [pc |-> "stream", client |-> client, ty |-> r.ty, first |-> r.first,
                later |-> Pack(RESULT_SUCCESS, 4) \o
                          (IF r.ty = List(Option(String)) THEN Pack(0, 4) ELSE <<0>>),
                open |-> TRUE, unread |-> <<>>, sent |-> 0, out |-> "none",
                mixed |-> FALSE]

InitTypes ==
    \E c \in Samples :
       codec = [pc |-> "value", ty |-> c.ty, val |-> c.val, bytes |-> <<>>,
                out |-> Failed(<<>>)]
InitFrames == codec \in Frames

InitCodec ==
    /\ InitAtRest
    /\ \/ InitTypes
       \/ InitFrames
       \/ InitSteps
       \/ InitMessages
       \/ InitSequences
       \/ InitConstruct
       \/ InitLocate
       \/ InitCollapse
       \/ InitConsistency
       \/ InitRaise
       \/ InitStream

SpecCodec == InitCodec /\ [][NextCodec]_vars

\* ------------------------------------------------------------------------
\* The methods of the client (pyrakoon/client/utils.py)
\* ------------------------------------------------------------------------
\* The arguments the methods are called with: right ones and wrong ones
CallInputs ==
    {[cls |-> "Set", attrs |-> ("key" :> VStr(<<97>>)) @@ ("value" :> VStr(<<>>))],
     [cls |-> "Set", attrs |-> ("key" :> VInt(7)) @@ ("value" :> VStr(<<>>))],
     [cls |-> "Delete", attrs |-> ("key" :> VNone)],
     [cls |-> "MultiGet",
      attrs |-> ("consistency" :> VNone) @@ ("keys" :> VList(<<VStr(<<97>>)>>))],
     [cls |-> "MultiGet", attrs |-> ("consistency" :> VNone) @@ ("keys" :> VStr(<<97>>))],
     [cls |-> "MultiGet",
      attrs |-> ("consistency" :> VNone) @@ ("keys" :> VList(<<VStr(<<97>>), VInt(1)>>))],
     [cls |-> "PrefixKeys",
      attrs |-> ("consistency" :> VConsistent) @@ ("prefix" :> VStr(<<>>))
                  @@ ("max_elements" :> VLong)],
     [cls |-> "Get", attrs |-> ("consistency" :> VStr(<<>>)) @@ ("key" :> VStr(<<97>>))]}
    \cup {[cls |-> "Get", attrs |-> ("consistency" :> c) @@ ("key" :> VStr(<<97>>))] :
             c \in {VConsistent, VInconsistent, VAtLeast(1)}}

\* The method client.utils.call makes of a message class, called with the
\* arguments of m: self.connected (True for ArakoonSocketClient), validate_types,
\* the message, and self._process(message) up to its self._lock.acquire().
\* codec keeps the message and the number of the call for the observer.
Wrapped(t) ==
    /\ t \in env.threads
    /\ th[t].pc = "idle"
    /\ th[t].calls < MaxCalls
    /\ \E m \in CallInputs :
         LET e == ValidateTypes(MessageArgs(m.cls), m.attrs)
             r == [IdleTh(th[t].calls + 1, "process", "none") EXCEPT
                     !.kind = m.cls, !.node_id = None, !.retry = TRUE]
         IN /\ codec' = [pc |-> "called", msg |-> m, n |-> th[t].calls + 1,
                          master |-> master_id]
            /\ IF e # "none"
               THEN /\ th' = [th EXCEPT ![t] = IdleTh(th[t].calls + 1, "process", e)]
                    /\ UNCHANGED <<lock, waitq>>
               ELSE /\ th' = [th EXCEPT ![t] =
                                [r EXCEPT !.pc = IF LockAvailable THEN "attempt" ELSE "acquire",
                                          !.ahead = IF LockAvailable
                                                    THEN {waitq[j] : j \in 1..Len(waitq)}
                                                    ELSE {}]]
                    /\ lock' = IF LockAvailable THEN t ELSE lock
                    /\ waitq' = IF ~LockAvailable THEN Append(waitq, t) ELSE waitq
    /\ UNCHANGED <<master_id, connections, cfg, env>>

\* ArakoonClient.getVersion(nodeId): a Version message and
\* self._client._process(message, node_id=nodeId) up to its self._lock.acquire().
\* codec keeps the message, the number of the call and the master_id the call
\* found for the observer.
GetVersion(t) ==
    /\ t \in env.threads
    /\ th[t].pc = "idle"
    /\ th[t].calls < MaxCalls
    /\ \E nodeId \in AllNodes \cup {None} :
         LET r == [IdleTh(th[t].calls + 1, "process", "none") EXCEPT
                     !.kind = "Version", !.node_id = nodeId, !.retry = TRUE]
         IN /\ codec' = [pc |-> "called", msg |-> [cls |-> "Version", attrs |-> <<>>],
                          n |-> th[t].calls + 1, master |-> master_id]
            /\ th' = [th EXCEPT ![t] =
                        [r EXCEPT !.pc = IF LockAvailable THEN "attempt" ELSE "acquire",
                                  !.ahead = IF LockAvailable
                                            THEN {waitq[j] : j \in 1..Len(waitq)}
                                            ELSE {}]]
            /\ lock' = IF LockAvailable THEN t ELSE lock
            /\ waitq' = IF ~LockAvailable THEN Append(waitq, t) ELSE waitq
    /\ UNCHANGED <<master_id, connections, cfg, env>>

\* One thread, two nodes that may refuse connections: requests to the master
\* through the methods of the client, requests to a node of the caller's
\* choice, and whoMaster
NextCall ==
    \/ NextRetry
    \/ \E t \in AllThreads : Wrapped(t)
    \/ \E t \in AllThreads : GetVersion(t)
InitCall ==
    InitWith({"t1"}, {"n1", "n2"}, {0}, Views({"n1", "n2"}), {"refused"}, {0}, 0,
             {WhoMasterCall})

SpecCall == InitCall /\ [][NextCall]_vars

\* ------------------------------------------------------------------------
\* Properties
\* ------------------------------------------------------------------------
\* Thread t is inside _process, past the acquire of the lock
InProcess(t) == th[t].op \in {"process", "epp"} /\ th[t].pc \notin {"idle", "acquire"}
\* Thread t has written its request and has not yet got the reply
Written(t) == th[t].purpose = "request" /\ th[t].pc \in {"read", "read2"}
\* _process raises (or returns) for thread t
AtExit(t) == th[t].pc = "release" /\ th[t].op = "process"

\* C1: while a request is in flight on a node's connection, no other request is
\* written to that connection, and the thread that reads reply bytes from it is
\* the one whose request is in flight. (The code breaks it: whoMaster reads its
\* replies without the lock and dropConnections takes no lock.)
C1_ConnectionExclusive ==
    \A n \in AllNodes :
      LET c == connections[n] IN
      c.connected =>
        /\ Len(c.inflight) <= 1
        /\ \A t \in AllThreads :
             (th[t].pc = "read2" /\ th[t].cref = n) =>
                \E j \in ReadBy(c, t) : c.inflight[j].t = t

\* C6: calls of _process never overlap: a thread inside _process, be it in
\* discovery, sending, reading, handling an error or sleeping, holds the lock.
C6_ProcessExclusive ==
    \A t \in AllThreads : InProcess(t) => lock = t
C6_Witness ==
    \E t \in AllThreads, u \in AllThreads :
       /\ th[t].pc = "sleep" /\ lock = t
       /\ th[u].pc = "acquire"

\* C7 as stated: when a thread's request has been written, no thread that was
\* waiting for the lock before it is still waiting.
C7_Fifo ==
    \A b \in AllThreads : Written(b) => th[b].ahead \cap Waiting = {}
\* C7 amended: requests are served in the order in which their calls get the
\* lock: when a thread's request has been written, no other call that got the
\* lock is unfinished; threads that waited longer may still be waiting.
C7_LockOrder ==
    \A b \in AllThreads :
       Written(b) => \A a \in AllThreads \ {b} : ~InProcess(a)
C7_Witness ==
    \E b \in AllThreads :
       Written(b) /\ th[b].calls = 2 /\ th[b].ahead \cap Waiting # {}

\* C2: during discovery a master B named by another node A is the stored
\* master_id at the end only if B, asked itself, named B; after a B that did not
\* confirm, master_id is empty and the loop goes on with the remaining nodes.
C2_Validated ==
    \A t \in AllThreads :
       /\ (th[t].pc = "dm_end" /\ master_id \in th[t].told) => master_id \in th[t].named
       /\ (th[t].pc = "dm_loop" /\ th[t].purpose = "validate"
             /\ th[t].target \notin th[t].named) => master_id = None
C2_Witness ==
    \E t \in AllThreads :
       /\ th[t].pc = "dm_end"
       /\ master_id \in th[t].told \cap th[t].named
       /\ th[t].told \ th[t].named # {}

\* C3 as stated: a request to the master with retry = true that fails with
\* NotMaster, NoLongerMaster, NoMaster, a zero-byte read, not-connected or a
\* send failure is raised only when the backoff no longer fits in the budget.
C3_AllRetried ==
    \A t \in AllThreads :
       (AtExit(t) /\ th[t].node_id = None /\ th[t].retry
          /\ th[t].exc \in {"NotMaster", "NoLongerMaster", "NoMaster", "SockReadNoBytes",
                            "NotConnected", "SockSendError"})
       => th[t].elapsed + BackoffTicks * th[t].tryCount > cfg.master_timeout
\* C3 amended: that holds for NotMaster, NoMaster, a zero-byte read and
\* not-connected; NoLongerMaster and a send failure never reach the handler of
\* the outer loop, they are raised when they first occur.
C3_CaughtRetried ==
    \A t \in AllThreads :
       /\ (AtExit(t) /\ th[t].node_id = None /\ th[t].retry
             /\ th[t].exc \in {"NotMaster", "NoMaster", "SockReadNoBytes", "NotConnected"})
          => th[t].elapsed + BackoffTicks * th[t].tryCount > cfg.master_timeout
       /\ th[t].exc \in {"NoLongerMaster", "SockSendError"} => th[t].pc = "release"
C3_Witness ==
    \E t \in AllThreads :
       /\ th[t].pc = "sleep" /\ th[t].retry /\ th[t].node_id = None
       /\ th[t].exc = "SockReadNoBytes"
       /\ th[t].tryCount = 2

\* C4 as stated: with k NotMaster replies before the first success, a request
\* with retry = true succeeds exactly when k backoff periods fit in the budget.
C4_LinearBudget ==
    \A t \in AllThreads :
       (AtExit(t) /\ th[t].calls = 1) =>
          ((th[t].exc = "none") <=> (env.k * BackoffTicks <= cfg.master_timeout))
\* C4 amended: it succeeds exactly when the sleeps 0, 1, .., k - 1 backoff
\* periods fit in the budget together, that is backoff * k * (k - 1) / 2 <= budget.
C4_TriangularBudget ==
    \A t \in AllThreads :
       (AtExit(t) /\ th[t].calls = 1) =>
          ((th[t].exc = "none")
             <=> (BackoffTicks * ((env.k * (env.k - 1)) \div 2) <= cfg.master_timeout))
C4_Witness ==
    \E t \in AllThreads :
       /\ AtExit(t) /\ th[t].calls = 1 /\ th[t].exc = "none"
       /\ env.k = 2 /\ cfg.master_timeout = 1

\* C5: with a cached master that has been replaced, every node naming the new
\* master M, a request with retry = true and the default budget eventually
\* returns with success, within the budget and with master_id = M.
C5_Failover ==
    <>(\E t \in AllThreads :
         /\ AtExit(t) /\ th[t].calls = 1 /\ th[t].exc = "none"
         /\ th[t].elapsed <= cfg.master_timeout
         /\ \A n \in cfg.nodes : env.who[n] = master_id)
C5_Witness ==
    \E t \in AllThreads :
       /\ AtExit(t) /\ th[t].calls = 1 /\ th[t].exc = "none"
       /\ th[t].attempts = 2 /\ th[t].tryCount = 1
       /\ cfg.master_timeout = NoMasterRetryTicks
       /\ \A n \in cfg.nodes : env.who[n] = master_id

\* C8: expectProgressPossible makes one attempt and returns the answer or
\* false, whatever fails. (The code breaks it: an error reply of the server is
\* not an ArakoonException and is raised to the caller.)
C8_NeverRaises ==
    \A t \in AllThreads :
       /\ th[t].op = "epp" => th[t].attempts <= 1
       /\ (th[t].op = "epp" /\ th[t].pc = "idle") => th[t].result \in {"ok", "False"}

\* C9 as stated: a request with retry = true whose read timed out is raised only
\* when the backoff no longer fits in the budget.
C9_TimeoutRetried ==
    \A t \in AllThreads :
       (AtExit(t) /\ th[t].retry /\ th[t].exc = "SockNotReadable")
       => th[t].elapsed + BackoffTicks * th[t].tryCount > cfg.master_timeout
\* C9 amended: a read timeout closes the socket of the connection, which stays
\* in the pool, and is raised to the caller at once, whatever retry is.
C9_TimeoutRaised ==
    \A t \in AllThreads :
       th[t].exc = "SockNotReadable" =>
          /\ th[t].pc = "release"
          /\ connections[th[t].cref].present
          /\ ~connections[th[t].cref].connected
          /\ connections[th[t].cref].socket = "closed"
C9_Witness ==
    \E t \in AllThreads :
       /\ AtExit(t) /\ th[t].retry /\ th[t].exc = "SockNotReadable"
       /\ th[t].elapsed + BackoffTicks * th[t].tryCount <= cfg.master_timeout

\* C10 as stated: WrongCluster is raised when it first occurs, and the
\* connection it came on has been closed and removed from the pool.
C10_Removed ==
    \A t \in AllThreads :
       th[t].exc = "WrongCluster" =>
          /\ th[t].pc = "release"
          /\ ~connections[th[t].cref].present
\* C10 amended: WrongCluster is raised when it first occurs, without a retry;
\* the connection it came on stays in the pool, connected.
C10_Kept ==
    \A t \in AllThreads :
       th[t].exc = "WrongCluster" =>
          /\ th[t].pc = "release"
          /\ connections[th[t].cref].present
          /\ connections[th[t].cref].connected
C10_Witness ==
    \E t \in AllThreads :
       /\ AtExit(t) /\ th[t].retry /\ th[t].exc = "WrongCluster"
       /\ th[t].elapsed + BackoffTicks * th[t].tryCount <= cfg.master_timeout

\* The value a receiver is to give back for the bytes of v: lists reversed,
\* products as tuples, an absent consistency as CONSISTENT
Reverse(q) == [j \in 1..Len(q) |-> q[Len(q) + 1 - j]]
RECURSIVE AsReceived(_, _)
AsReceived(t, v) ==
    CASE t.k = "list" ->
           VList(Reverse([j \in 1..Len(v.items) |-> AsReceived(t.args[1], v.items[j])]))
      [] t.k = "product" ->
           VTuple([j \in 1..Len(v.items) |-> AsReceived(t.args[j], v.items[j])])
      [] t.k = "option" -> IF v.k = "none" THEN v ELSE AsReceived(t.args[1], v)
      [] t.k = "consistency" -> IF v.k = "none" THEN VConsistent ELSE v
      [] OTHER -> v

WireItems ==
    LET c == Receive(UINT32, codec.bytes) IN
    ReceiveEach([j \in 1..c.val.n |-> codec.ty.args[1]], c.rest).vals

NamedErrors ==
    [NoMagic |-> 1, TooManyDeadNodes |-> 2, NoHello |-> 3, NotMaster |-> 4,
     NotFound |-> 5, WrongCluster |-> 6, AssertionFailed |-> 7, ReadOnly |-> 8,
     OutsideInterval |-> 9, GoingDown |-> 16, NotSupported |-> 32,
     NoLongerMaster |-> 33, BadInput |-> 38, InconsistentRead |-> 128,
     MaxConnections |-> 254, UnknownFailure |-> 255]
RECURSIVE FromHex(_)
FromHex(ds) == IF ds = <<>> THEN 0 ELSE 16 * FromHex(SubSeq(ds, 1, Len(ds) - 1)) + ds[Len(ds)]

\* C11: a reply with code 0 hands back the payload parsed as the return type
\* and raises nothing; a reply with one of the sixteen codes raises the error
\* of exactly that code with the server's message unchanged; a reply with any
\* other code raises the generic error with both the code and the message.
C11_ErrorMapped ==
    codec.pc = "replied" =>
       LET r == codec.reply IN
       /\ codec.code = 0 =>
             r.raised = "none" /\ r.value = AsReceived(codec.ty, codec.val)
       /\ \A cls \in DOMAIN NamedErrors :
             codec.code = NamedErrors[cls] =>
                r.raised = cls /\ r.fmt = "%s" /\ r.s = codec.val.s
       /\ (codec.code # 0 /\ \A cls \in DOMAIN NamedErrors : codec.code # NamedErrors[cls]) =>
             /\ r.raised = "ArakoonError"
             /\ FromHex(r.x) = codec.code
             /\ r.s = codec.val.s
C11_Witness ==
    /\ codec.pc = "replied"
    /\ codec.code = 38
    /\ codec.val = VStr(<<97, 98, 99>>)
    /\ codec.reply.raised = "BadInput"
    /\ codec.reply.s = <<97, 98, 99>>

\* A string and an optional string on the wire
WireString(x) == Pack(Len(x), 4) \o x
WireOption(v) == IF v.k = "none" THEN <<0>> ELSE <<1>> \o WireString(v.s)

\* A reader of the serialisation of a step: the step and the bytes after it
RECURSIVE ParseStep(_)
RECURSIVE ParseSteps(_, _)
ParseSteps(n, bs) ==
    IF n = 0 THEN [steps |-> <<>>, rest |-> bs]
    ELSE LET h == ParseStep(bs)
             q == ParseSteps(n - 1, h.rest)
         IN [steps |-> <<h.step>> \o q.steps, rest |-> q.rest]
ParseStep(bs) ==
    LET tag == UnpackUnsigned(Take(bs, 4))
        body == Drop(bs, 4)
        cls == CHOOSE c \in {"Set", "Delete", "Sequence", "Assert", "DeletePrefix",
                             "AssertExists", "Replace"} : StepTag(c) = tag
    IN IF cls = "Sequence"
       THEN LET q == ParseSteps(UnpackUnsigned(Take(body, 4)), Drop(body, 4))
            IN [step |-> Sequence(q.steps), rest |-> q.rest]
       ELSE LET key == Receive(String, body) IN
            IF cls \in {"Delete", "DeletePrefix", "AssertExists"}
            THEN [step |-> Step(cls, <<key.val>>, <<>>), rest |-> key.rest]
            ELSE LET second == Receive(IF cls = "Set" THEN String ELSE Option(String),
                                       key.rest)
                 IN [step |-> Step(cls, <<key.val, second.val>>, <<>>),
                     rest |-> second.rest]

RECURSIVE SumLen(_)
SumLen(ss) == IF ss = <<>> THEN 0 ELSE Len(Head(ss)) + SumLen(Tail(ss))
RECURSIVE Depth(_)
Depth(step) ==
    IF step.steps = <<>> THEN 1
    ELSE 1 + CHOOSE d \in {Depth(step.steps[j]) : j \in 1..Len(step.steps)} :
                 \A j \in 1..Len(step.steps) : Depth(step.steps[j]) <= d

\* C14: a Sequence step serialises as uint32 5, uint32 number of direct
\* children, then the serialisations of the children in list order; its length
\* is 8 plus the sum of the lengths of its children, and reading the bytes
\* gives back the tree.
C14_SequenceTree ==
    (codec.pc = "stepwire" /\ codec.step.cls = "Sequence") =>
       LET children == [j \in 1..Len(codec.step.steps) |->
                          StepSerialize(codec.step.steps[j])]
       IN /\ codec.bytes = <<5, 0, 0, 0>> \o Pack(Len(codec.step.steps), 4)
                               \o Flatten(children)
          /\ Len(codec.bytes) = 8 + SumLen(children)
          /\ ParseStep(codec.bytes) = [step |-> codec.step, rest |-> <<>>]
C14_Witness ==
    /\ codec.pc = "stepwire" /\ codec.step.cls = "Sequence"
    /\ Depth(codec.step) = 4
    /\ Len(codec.step.steps) = MaxLen
    /\ codec.step.steps[1] = Sequence(<<>>)
    /\ ParseStep(codec.bytes).step = codec.step

\* C15: a step that is no Sequence serialises as its uint32 tag, then its
\* arguments in the order of the declaration: a string as its uint32 length
\* and its bytes, an optional string as a presence byte and, when present,
\* the string.
C15_StepBytes ==
    (codec.pc = "stepwire" /\ codec.step.cls # "Sequence") =>
       LET a == codec.step.args
           c == codec.step.cls
       IN codec.bytes =
            CASE c = "Set" -> <<1, 0, 0, 0>> \o WireString(a[1].s) \o WireString(a[2].s)
              [] c = "Delete" -> <<2, 0, 0, 0>> \o WireString(a[1].s)
              [] c = "Assert" -> <<8, 0, 0, 0>> \o WireString(a[1].s) \o WireOption(a[2])
              [] c = "DeletePrefix" -> <<14, 0, 0, 0>> \o WireString(a[1].s)
              [] c = "AssertExists" -> <<15, 0, 0, 0>> \o WireString(a[1].s)
              [] c = "Replace" -> <<16, 0, 0, 0>> \o WireString(a[1].s) \o WireOption(a[2])
C15_Witness ==
    /\ codec.pc = "stepwire"
    /\ codec.step = Step("Replace", <<VStr(<<97>>), VStr(<<98, 99>>)>>, <<>>)
    /\ codec.bytes = <<16, 0, 0, 0, 1, 0, 0, 0, 97, 1, 2, 0, 0, 0, 98, 99>>

\* The catalogue of messages: the code, and the arguments in wire order with
\* the encoding of each
Catalogue ==
    ("Hello" :> [code |-> 1, args |-> <<<<"client_id", "string">>, <<"cluster_id", "string">>>>])
     @@ ("WhoMaster" :> [code |-> 2, args |-> <<>>])
     @@ ("Exists" :> [code |-> 7, args |-> <<<<"consistency", "consistency">>, <<"key", "string">>>>])
     @@ ("Get" :> [code |-> 8, args |-> <<<<"consistency", "consistency">>, <<"key", "string">>>>])
     @@ ("Set" :> [code |-> 9, args |-> <<<<"key", "string">>, <<"value", "string">>>>])
     @@ ("Delete" :> [code |-> 10, args |-> <<<<"key", "string">>>>])
     @@ ("Range" :> [code |-> 11, args |->
        <<<<"consistency", "consistency">>, <<"begin_key", "option">>,
          <<"begin_inclusive", "bool">>, <<"end_key", "option">>,
          <<"end_inclusive", "bool">>, <<"max_elements", "int32">>>>])
     @@ ("PrefixKeys" :> [code |-> 12, args |->
        <<<<"consistency", "consistency">>, <<"prefix", "string">>,
          <<"max_elements", "int32">>>>])
     @@ ("TestAndSet" :> [code |-> 13, args |->
        <<<<"key", "string">>, <<"test_value", "option">>, <<"set_value", "option">>>>])
     @@ ("RangeEntries" :> [code |-> 15, args |->
        <<<<"consistency", "consistency">>, <<"begin_key", "option">>,
          <<"begin_inclusive", "bool">>, <<"end_key", "option">>,
          <<"end_inclusive", "bool">>, <<"max_elements", "int32">>>>])
     @@ ("MultiGet" :> [code |-> 17, args |-> <<<<"consistency", "consistency">>, <<"keys", "list">>>>])
     @@ ("ExpectProgressPossible" :> [code |-> 18, args |-> <<>>])
     @@ ("Statistics" :> [code |-> 19, args |-> <<>>])
     @@ ("UserFunction" :> [code |-> 21, args |-> <<<<"function", "string">>, <<"argument", "option">>>>])
     @@ ("Assert" :> [code |-> 22, args |->
        <<<<"consistency", "consistency">>, <<"key", "string">>, <<"value", "option">>>>])
     @@ ("GetKeyCount" :> [code |-> 26, args |-> <<>>])
     @@ ("Confirm" :> [code |-> 28, args |-> <<<<"key", "string">>, <<"value", "string">>>>])
     @@ ("RevRangeEntries" :> [code |-> 35, args |->
        <<<<"consistency", "consistency">>, <<"begin_key", "option">>,
          <<"begin_inclusive", "bool">>, <<"end_key", "option">>,
          <<"end_inclusive", "bool">>, <<"max_elements", "int32">>>>])
     @@ ("DeletePrefix" :> [code |-> 39, args |-> <<<<"prefix", "string">>>>])
     @@ ("Version" :> [code |-> 40, args |-> <<>>])
     @@ ("AssertExists" :> [code |-> 41, args |-> <<<<"consistency", "consistency">>, <<"key", "string">>>>])
     @@ ("MultiGetOption" :> [code |-> 49, args |-> <<<<"consistency", "consistency">>, <<"keys", "list">>>>])
     @@ ("GetCurrentState" :> [code |-> 50, args |-> <<>>])
     @@ ("Replace" :> [code |-> 51, args |-> <<<<"key", "string">>, <<"value", "option">>>>])
     @@ ("Nop" :> [code |-> 65, args |-> <<>>])
     @@ ("GetTxID" :> [code |-> 67, args |-> <<>>])

\* The bytes of a consistency and of an argument of each encoding
WireConsistency(v) ==
    IF v.k \in {"none", "CONSISTENT"} THEN <<0>>
    ELSE IF v.k = "INCONSISTENT" THEN <<1>>
    ELSE <<2>> \o Pack(v.n, 8)
WireArg(enc, v) ==
    CASE enc = "string" -> WireString(v.s)
      [] enc = "option" -> WireOption(v)
      [] enc = "bool" -> <<v.n>>
      [] enc = "int32" -> Pack(v.n, 4)
      [] enc = "list" ->
           Pack(Len(v.items), 4) \o Flatten([j \in 1..Len(v.items) |-> WireString(v.items[j].s)])
      [] enc = "consistency" -> WireConsistency(v)

\* C17: a message other than Sequence serialises as the uint32 little-endian
\* tag code | 0xB1FF0000, then its arguments in the order of its schema; the
\* bytes of a consistency argument come right after the tag.
C17_MessageBytes ==
    codec.pc = "messagewire" =>
       LET entry == Catalogue[codec.msg.cls]
           attrs == codec.msg.attrs
       IN /\ codec.bytes =
               <<entry.code % 256, entry.code \div 256, 255, 177>>
                 \o Flatten([j \in 1..Len(entry.args) |->
                               WireArg(entry.args[j][2], attrs[entry.args[j][1]])])
          /\ "consistency" \in DOMAIN attrs =>
                LET c == WireConsistency(attrs["consistency"]) IN
                SubSeq(codec.bytes, 5, 4 + Len(c)) = c
C17_Witness ==
    /\ codec.pc = "messagewire"
    /\ codec.msg.cls = "RevRangeEntries"
    /\ codec.msg.attrs["consistency"] = VAtLeast(70000)
    /\ codec.msg.attrs["begin_key"] = VStr(<<98, 99>>)
    /\ codec.msg.attrs["end_key"] = VNone
    /\ SubSeq(codec.bytes, 1, 13) = <<35, 0, 255, 177, 2, 112, 17, 1, 0, 0, 0, 0, 0>>

\* The tag of a Sequence message on the wire
SequenceTagBytes == IF codec.sync THEN <<36, 0, 255, 177>> ELSE <<16, 0, 255, 177>>

\* C16 as stated: a Sequence message serialises as the tag 0x0010 | 0xB1FF0000
\* (sync false) or 0x0024 | 0xB1FF0000 (sync true), then one length-prefixed
\* string that holds the serialisation of a Sequence step whose direct children
\* are the given steps in order; the sync flag is not written.
C16_GivenStepsWrapped ==
    codec.pc = "sequencewire" =>
       codec.bytes = SequenceTagBytes \o WireString(StepSerialize(Sequence(codec.steps)))
\* C16 amended: when the given list is one step and that step is a Sequence,
\* the string holds the serialisation of that step itself; in every other case
\* it holds the serialisation of a Sequence step whose direct children are the
\* given steps in order.
C16_SingleSequenceUnwrapped ==
    codec.pc = "sequencewire" =>
       codec.bytes =
          SequenceTagBytes
            \o WireString(StepSerialize(
                  IF Len(codec.steps) = 1 /\ codec.steps[1].cls = "Sequence"
                  THEN codec.steps[1] ELSE Sequence(codec.steps)))
C16_Witness ==
    /\ codec.pc = "sequencewire"
    /\ codec.sync
    /\ codec.steps = <<Sequence(<<>>)>>
    /\ codec.bytes = <<36, 0, 255, 177, 8, 0, 0, 0, 5, 0, 0, 0, 0, 0, 0, 0>>

\* C18: on every socket the first bytes written are the prologue, written
\* once, and no request is written on a socket before its prologue: a
\* connection that is ready or has requests in flight holds a socket with
\* exactly one prologue written, on first opens and on reconnects.
C18_PrologueFirst ==
    \A n \in AllNodes :
       (connections[n].connected \/ connections[n].inflight # <<>>) =>
          connections[n].prologue = 1
C18_Witness ==
    \E n \in AllNodes :
       /\ connections[n].connected /\ connections[n].reused
       /\ connections[n].prologue = 1
       /\ Len(connections[n].inflight) = 1

\* The sockets to node n that are open: the one its pooled connection holds
\* and the one left open by a connection that was popped
OpenSockets(n) ==
    (IF connections[n].socket = "open" THEN 1 ELSE 0)
      + (IF n \in env.orphans THEN 1 ELSE 0)
\* C19: in every reachable state there is at most one open socket per node.
C19_OneOpenSocket == \A n \in AllNodes : OpenSockets(n) <= 1

\* A pooled connection object that was ready and has been closed or marked not
\* connected
ClosedAfterReady(c) ==
    c.present /\ ~c.connected /\ (c.socket = "closed" \/ c.prologue = 1)
\* C20 as stated: a connection object that has been closed never becomes ready
\* again.
C20_ClosedIsTerminal ==
    [][\A n \in AllNodes :
         ClosedAfterReady(connections[n]) => ~connections'[n].connected]_vars
\* C20 amended: a send failure and a drop take the object out of the pool, and
\* the object a later request puts in the pool is a new one; an object closed by
\* a read failure or a read timeout stays in the pool, and the next send to its
\* node makes that object ready again on a new socket, with its own prologue
\* and none of the requests of the closed socket in flight.
C20_ReadyAgainOnNewSocket ==
    [][/\ \A n \in AllNodes :
            LET c == connections[n]
                d == connections'[n]
            IN /\ (ClosedAfterReady(c) /\ d.connected) =>
                     /\ d.reused /\ d.socket = "open" /\ d.prologue = 1
                     /\ Len(d.inflight) = 1
               /\ (~c.present /\ d.present) => ~d.reused
               /\ ClosedAfterReady(c) => (d = c \/ d.connected \/ ~d.present)
       /\ \A t \in AllThreads :
            /\ (th[t].pc = "sm" /\ th'[t].pc \notin {"sm", "read"}
                  /\ SendTarget(t) \in cfg.nodes) =>
                  ~connections'[SendTarget(t)].present
            /\ (th[t].pc \in {"drop", "except"} /\ th'[t].pc # th[t].pc) =>
                  connections' = EmptyPool]_vars
C20_Witness ==
    \E n \in AllNodes, t \in AllThreads :
       /\ connections[n].connected /\ connections[n].reused
       /\ th[t].pc = "read" /\ th[t].cref = n /\ th[t].purpose = "request"


\* C21: a method called with an argument that its type's check rejects (a bare
\* string for a list of strings among them) raises TypeError or ValueError in
\* the step of the call itself: the thread never enters _process, nothing is
\* written, no connection is opened, master_id and the pool are as before.
Rejected(m) ==
    \E j \in 1..Len(MessageArgs(m.cls)) :
       ~Check(MessageArgs(m.cls)[j].type, m.attrs[MessageArgs(m.cls)[j].name])
C21_RaisesBeforeSend ==
    [][\A t \in AllThreads :
         (th'[t].calls # th[t].calls /\ codec'.pc = "called" /\ codec'.n = th'[t].calls
            /\ Rejected(codec'.msg))
         => /\ th'[t].pc = "idle"
            /\ th'[t].result \in {"TypeError", "ValueError"}
            /\ master_id' = master_id
            /\ connections' = connections
            /\ lock' = lock]_vars
C21_Witness ==
    /\ codec.pc = "called"
    /\ codec.msg.cls = "MultiGet" /\ codec.msg.attrs["keys"].k = "str"
    /\ codec.n = th["t1"].calls
    /\ th["t1"].pc = "idle" /\ th["t1"].result = "TypeError"
    /\ master_id # None
    /\ Pooled # {}


\* C22: while a request with an explicit node_id is in _process, on its first
\* attempt and on every retry, the client does not enter determine_master and
\* sends no WhoMaster, and no step of the call opens a socket, writes a
\* prologue or writes a request on the connection of any other node.
NodeScoped(t) == th[t].op = "process" /\ th[t].node_id # None /\ th[t].pc # "idle"
Succeeding(t) ==
    /\ NodeScoped(t) /\ th[t].pc = "release" /\ th[t].exc = "none"
    /\ codec.pc = "called" /\ codec.n = th[t].calls
C23_MasterKept == \A t \in AllThreads : Succeeding(t) => master_id = codec.master

\* C23: a request with an explicit node_id that completes successfully on its
\* first attempt leaves master_id as the call found it, absent or set, the
\* target or another node; one that succeeds after a retry leaves it absent.
C23_MasterKeptFirstAttempt ==
    \A t \in AllThreads :
       Succeeding(t) =>
         master_id = IF th[t].attempts = 1 THEN codec.master ELSE None
C23_Witness ==
    \E t \in AllThreads :
       /\ Succeeding(t) /\ th[t].attempts = 1
       /\ master_id \notin {None, th[t].node_id}


\* C24: when determine_master has gone through the nodes and none of them
\* named itself, asked directly or asked to confirm what another node said
\* (each was unreachable, answered nothing, or named a node that did not
\* confirm), master_id is absent and the final test raises NoMaster, leaving
\* master_id absent.
Unvalidated(t) == th[t].pc = "dm_end" /\ th[t].purpose # "none" /\ th[t].named = {}
C24_NoMasterRaised ==
    [][\A t \in AllThreads :
         Unvalidated(t)
         => /\ master_id = None
            /\ master_id' = None
            /\ th'[t] # th[t] =>
                 IF th[t].op = "whoMaster"
                 THEN th'[t].pc = "idle" /\ th'[t].result = "NoMaster"
                 ELSE th'[t].pc = "except" /\ th'[t].exc = "NoMaster"]_vars
C24_Witness ==
    \E t \in AllThreads :
       /\ th[t].op = "whoMaster" /\ th[t].pc = "idle" /\ th[t].result = "NoMaster"
       /\ master_id = None
       /\ \E a \in cfg.nodes, b \in cfg.nodes, c \in cfg.nodes :
            /\ env.who[a] = b /\ a # b /\ env.who[b] = c /\ b # c /\ env.who[c] = None


\* C25 as stated: the no-master retry budget of a new client is the
\* noMasterTimeout the caller supplied, 60 seconds when none was supplied,
\* whatever the connection timeout argument.
C25_BudgetAsSupplied ==
    codec.pc = "constructed" =>
      cfg.master_timeout = IF codec.supplied THEN codec.noMasterTimeout
                           ELSE NoMasterRetryTicks


\* C26 as stated: for a node configured with several addresses, a send whose
\* connection to the first address fails goes on to the remaining addresses,
\* and succeeds when any of them is reachable.
C26_AnyAddressServes ==
    codec.pc = "located" =>
      /\ (\E j \in 1..Len(codec.ips) : codec.ips[j]) => codec.exc = "none"
      /\ ~codec.ips[1] => \A j \in 1..Len(codec.ips) : \E k \in 1..Len(codec.tried) :
                            codec.tried[k] = j


\* C27 as stated: the reads of the reply to collapse have no timeout, on a
\* connection the call opens and on one that was in the pool.
C27_CollapseNeverTimesOut == codec.pc = "collapsed" => codec.readTimeout = -1


\* C28 as stated: a read (get, exists, range, range_entries,
\* rev_range_entries, prefix, multiGet, multiGetOption) called without a
\* consistency of its own carries on the wire, right after the tag, the
\* consistency that was set last (Consistent on a new client).
WireOfSet(c) ==
    CASE c.c = "Consistent" -> <<0>>
      [] c.c = "NoGuarantee" -> <<1>>
      [] c.c = "AtLeast" -> <<2>> \o Pack(c.i, 8)
C28_LastSetUsed ==
    (codec.pc = "client" /\ codec.op # "none") =>
      LET w == WireOfSet(codec.consistency)
      IN /\ Len(codec.wire) >= 4 + Len(w)
         /\ \A j \in 1..Len(w) : codec.wire[4 + j] = w[j]


\* C29 as stated: no request is serialised with an AtLeast consistency whose i
\* is negative (the consistency byte 2 followed by a 64-bit i with the sign bit
\* set): the check of the consistency argument rejects it before.
C29_NoNegativeAtLeast ==
    (codec.pc = "client" /\ Len(codec.wire) >= 13 /\ codec.wire[5] = 2)
      => codec.wire[13] < 128


\* C30 as stated: the compat client turns NotFound into ArakoonNotFound,
\* NotMaster into ArakoonNodeNotMaster, AssertionFailed into
\* ArakoonAssertionFailed, BadInput into ArakoonBadInput, NoLongerMaster into
\* ArakoonNodeNoLongerMaster, GoingDown into ArakoonGoingDown and every other
\* error of the server (WrongCluster too) into ArakoonException; only the
\* errors of the argument checks become ArakoonInvalidArguments.
Counterpart(e) ==
    CASE e = "NotFound" -> "ArakoonNotFound"
      [] e = "NotMaster" -> "ArakoonNodeNotMaster"
      [] e = "AssertionFailed" -> "ArakoonAssertionFailed"
      [] e = "BadInput" -> "ArakoonBadInput"
      [] e = "NoLongerMaster" -> "ArakoonNodeNoLongerMaster"
      [] e = "GoingDown" -> "ArakoonGoingDown"
      [] OTHER -> "ArakoonException"
C30_SpecificCounterpart ==
    codec.pc = "converted" =>
      /\ codec.exc \in ArakoonErrors => codec.out = Counterpart(codec.exc)
      /\ codec.out = "ArakoonInvalidArguments" =>
           codec.exc \in {"TypeError", "ValueError", "ArakoonInvalidArguments"}


\* C31 as stated: a request to an explicit node id that the configuration
\* does not hold fails with UnknownNode, opens no connection and leaves
\* master_id as the call found it.
C31_UnknownNodeRaised ==
    \A t \in AllThreads :
       (NodeScoped(t) /\ th[t].node_id \notin cfg.nodes /\ th[t].pc = "release"
          /\ codec.pc = "called" /\ codec.n = th[t].calls)
       => /\ th[t].exc \in {"UnknownNode", "ArakoonUnknownNode"}
          /\ master_id = codec.master
          /\ ~connections[th[t].node_id].present


\* C32 as stated: after any read error during the reply, when _process is
\* about to retry or to raise, the connection of the failing node is out of
\* the pool and master_id is absent.
ReadErrors == ReadFaults \cup {"SockRecvClosed"}
Failing(t) ==
    /\ th[t].op = "process" /\ th[t].pc \in {"sleep", "release"}
    /\ th[t].exc \in ReadErrors /\ th[t].cref \in AllNodes
Handled(t) ==
    /\ th[t].op \in {"process", "epp"}
    /\ th[t].pc \in {"sleep", "release"}
    /\ th[t].exc \in {"NotMaster", "NoMaster", "NotConnected", "SockReadNoBytes"}
\* The time thread t sleeps in this step, before its retry
Slept(t) == th'[t].elapsed - th[t].elapsed
Sleeps(t) == th[t].pc = "sleep" /\ th'[t].pc = "attempt"

\* C33 as stated: after an attempt of _process that failed with NotMaster,
\* NoMaster, NotConnected or a zero-byte read, master_id is absent and the pool
\* is empty before the next attempt starts or the error is raised, and the sleep
\* before the n-th retry is backoff * n.
C33_DropsAndSleepsN ==
    /\ [](\A t \in AllThreads : Handled(t) => master_id = None /\ Pooled = {})
    /\ [][\A t \in AllThreads :
            Sleeps(t) => Slept(t) = BackoffTicks * th[t].tryCount]_vars
\* C33 amended: the same, and the sleep before the n-th retry is
\* backoff * (n - 1): the first retry follows at once.
C33_DropsAndSleepsBefore ==
    /\ [](\A t \in AllThreads : Handled(t) => master_id = None /\ Pooled = {})
    /\ [][\A t \in AllThreads :
            Sleeps(t) => Slept(t) = BackoffTicks * (th[t].tryCount - 1)]_vars
C33_Witness ==
    \E t \in AllThreads :
       /\ th[t].pc = "attempt" /\ th[t].tryCount = 2 /\ th[t].elapsed = BackoffTicks
       /\ th[t].exc = "SockReadNoBytes"
       /\ master_id = None /\ Pooled = {}



\* An attempt of _send_message by thread t fails in this step: the loop goes
\* on with the next attempt, or the error leaves _send_message
FailedAttempt(t) ==
    /\ th[t].pc = "sm"
    /\ \/ th'[t].pc = "sm" /\ th'[t].i = th[t].i + 1
       \/ th'[t].pc \in {"dm_loop", "except", "release"}
LastAttempt(t) == th'[t].pc # "sm"

\* What the loop of _send_message does with the pool, master_id and the error
\* when an attempt of thread t fails
SendMessageLoop(t) ==
    LET n == SendTarget(t) IN
    /\ th[t].i < cfg.try_count
    /\ ~connections'[n].present
    /\ master_id' = None
    /\ \A m \in AllNodes \ {n} : connections'[m] = connections[m]
    /\ LastAttempt(t) <=> th[t].i + 1 = cfg.try_count
    /\ (LastAttempt(t) /\ th[t].purpose = "request")
         => th'[t].exc \in {"NotConnected", "SockSendError"}

\* C34: _send_message makes at most try_count attempts; after each failed
\* attempt the connection of the target node is out of the pool and master_id
\* is absent, the connections of the other nodes are as they were, and after
\* the last failed attempt the error is raised; and the connection taken out
\* of the pool is closed, no socket of it is left open.
C34_SendMessageAttempts ==
    [][\A t \in AllThreads :
         FailedAttempt(t) => SendMessageLoop(t) /\ env'.orphans = env.orphans]_vars


\* The sleeps before n attempts, 0, 1, .., n - 2 backoff periods, fit in budget b
Affordable(n, b) == n >= 2 => BackoffTicks * (((n - 1) * (n - 2)) \div 2) <= b

\* C35: every call of _process terminates; the attempts of a call with retry
\* are bounded by the no-master budget, whatever the transport does, and a call
\* without retry raises after exactly one attempt.
C35_Terminates ==
    /\ \A t \in AllThreads : InProcess(t) ~> (th[t].pc = "idle")
    /\ [](\A t \in AllThreads :
            InProcess(t) =>
              /\ Affordable(th[t].attempts, cfg.master_timeout)
              /\ ~th[t].retry => th[t].attempts <= 1
              /\ (AtExit(t) /\ ~th[t].retry) => th[t].attempts = 1)
C35_Witness ==
    \E t \in AllThreads :
       /\ AtExit(t) /\ th[t].retry /\ th[t].exc = "NotMaster"
       /\ th[t].attempts = 3 /\ cfg.master_timeout = 1


\* C36: master_id never holds a node id that has not been validated where
\* another thread can see it: a request is never on its way to a node, taken
\* for master, that has not named itself in a WhoMaster reply to this client.
C36_SentToValidated ==
    \A u \in AllThreads :
       (Written(u) /\ th[u].node_id = None) => th[u].cref \in env.heard \cup {"dropped"}


\* The sum of the counts of a sequence of Requests
RECURSIVE SumOf(_)
SumOf(q) == IF q = <<>> THEN 0 ELSE Head(q) + SumOf(Tail(q))

\* C38: on a well-formed response frame, success or error, Message.receive
\* yields finitely many Requests, each for a positive count, and then one
\* result or one raised error; the counts sum to the length of the frame, so
\* an error is raised with its whole message read and nothing is left unread.
C38_RequestsCoverFrame ==
    codec.pc = "replied" =>
       /\ \A j \in 1..Len(codec.asked.counts) : codec.asked.counts[j] > 0
       /\ SumOf(codec.asked.counts) = Len(codec.bytes)
       /\ codec.asked.end = "result" /\ codec.asked.rest = <<>>
       /\ codec.reply.raised # "incomplete"
       /\ codec.reply.raised = "none" <=> codec.code = RESULT_SUCCESS
       /\ codec.code # RESULT_SUCCESS => codec.reply.s = codec.val.s
C38_Witness ==
    /\ codec.pc = "replied" /\ codec.reply.raised = "NotMaster"
    /\ codec.asked.counts = <<4, 4, 3>>
    /\ codec.reply.s = <<97, 98, 99>>


\* C37: when the parsing of a reply has aborted on a protocol violation with
\* bytes of that reply unread, no later request is written on that socket: the
\* connection has been closed or taken out of the pool first.
C37_NoLeftoverRead ==
    codec.pc = "stream" => ~codec.mixed


\* The message of the call thread t is in carries a consistency argument c
Reads(t, c) ==
    /\ codec.pc = "called" /\ codec.n = th[t].calls
    /\ th[t].op = "process" /\ th[t].node_id = None
    /\ "consistency" \in DOMAIN codec.msg.attrs
    /\ codec.msg.attrs["consistency"] = c
Consistencies == {VNone, VConsistent, VInconsistent, VAtLeast(1)}

C40_TimeoutRestored ==
    codec.pc = "collapsed" =>
       /\ codec.timeoutAfter = codec.timeout
       /\ codec.laterTimeout = ConnTimeoutInit(codec.timeout)

====
